---- MODULE Spec2Model ----
(***************************************************************************)
(* Model of the e-commerce analytics scripts:                              *)
(*   scripts/01_data_preparation.py   (cleaned dataframe -> transactions)  *)
(*   scripts/02_ab_testing_analysis.py (customer_metrics, samples, tests)  *)
(*   scripts/03_cohort_analysis.py    (cohorts, retention matrix)          *)
(*   scripts/04_rfm_segmentation.py   (rfm_data, scores, segments)         *)
(*   scripts/05_comprehensive_metrics.py (the consolidated record)         *)
(*                                                                         *)
(* Each script is a straight-line batch program; one action models one of  *)
(* its numbered phases.  Money is counted in integer units and timestamps  *)
(* in ticks (TicksPerDay ticks to the day); quantile interpolation, which  *)
(* pandas does in floating point, is done exactly on values scaled by      *)
(* QCUT_Q.                                                                 *)
(***************************************************************************)
EXTENDS Integers, Sequences, FiniteSets, TLC

VARIABLES
    pc,                 \* phase the running script has reached
    df,                 \* 01: the cleaned dataframe (set of rows)
    customer_groups,    \* 01: CustomerID -> TestGroup
    customer_regions,   \* 01: UK CustomerID -> Region
    transactions,       \* the DuckDB table 'transactions' (set of rows)
    customer_metrics,   \* 02: rows of the customer-level aggregation
    analysis_date,      \* 04: run-wide reference timestamp, in ticks
    rfm_data,           \* 04: the customer dataframe, rows in store order
    segment_summary,    \* 04: one row per segment, largest revenue first
    results,            \* 02: the dictionary written to ab_test_results.json
    cohort_transactions,   \* 03: the dataframe 'transactions' after the merge
    cohort_data,           \* 03: one row per (CohortMonth, MonthsSinceFirst)
    retention_matrix,      \* 03: CohortMonth -> (MonthsSinceFirst -> rate)
    cohort_metrics,        \* 03: the dictionary written to cohort_metrics.json
    comprehensive_metrics, \* 05: the consolidated record
    error,              \* the exception that ended the script, or "none"
    metrics,            \* 04: the dictionary written to rfm_metrics.json
    customers,          \* 01: the DuckDB table 'customers' (set of rows)
    files,              \* the output files: name -> absent, partial, complete
    task,               \* the position of each script run as a task
    observed,           \* 05: what json.load met in each file it opened
    previous            \* the output records of the run before this one

\* what 03 and 05 compute
cohortVars == <<cohort_transactions, cohort_data, retention_matrix,
                cohort_metrics, comprehensive_metrics>>

\* what the later phases of 04, the table 'customers' and the runs of the
\* scripts as tasks add
reportVars == <<metrics, customers, files, task, observed, previous>>

vars == <<pc, df, customer_groups, customer_regions, transactions,
          customer_metrics, analysis_date, rfm_data, segment_summary,
          results, cohortVars, error, reportVars>>

\* nothing written by the later phases, no task started
NoReport ==
    /\ metrics = <<>>
    /\ customers = {}
    /\ files = <<>>
    /\ task = <<>>
    /\ observed = <<>>
    /\ previous = <<>>

----------------------------------------------------------------------------
(* Bounds of the model.                                                    *)

\* largest number of customer rows of a drawn rfm_data table
MaxCust == 5
\* largest number of rows of a drawn transaction table or dataframe
MaxTx == 3
\* customer ids of a drawn transaction table are 1..MaxTxCust
MaxTxCust == 3
\* invoice numbers of a drawn transaction table are 1..MaxInvoice
MaxInvoice == 4
\* ticks of the clock in one day
TicksPerDay == 2
\* customer ids of a table the A/B analysis is run over are 1..MaxAbCust
MaxAbCust == 4
\* largest number of rows of a table the A/B analysis is run over
MaxAbTx == 4

\* raw metric values of a drawn rfm_data table
RecencyValues == 1..4
FrequencyValues == 1..2
\* value of each order of customer c in a drawn rfm_data table (Monetary is
\* Frequency times this)
BasketValue(c) == ((2 * c) % 3) + 1

----------------------------------------------------------------------------
(* Helpers over sequences.                                                 *)

Range(s) == {s[i] : i \in DOMAIN s}

Max(S) == CHOOSE x \in S : \A y \in S : y <= x

\* the column `name` of a dataframe held as a sequence of rows
Column(frame, name) == [i \in DOMAIN frame |-> frame[i][name]]

\* ascending sort of a sequence of integers (what the quantile is taken of)
SortedValues(vals) ==
    [i \in DOMAIN vals |->
        CHOOSE v \in Range(vals) :
            /\ Cardinality({j \in DOMAIN vals : vals[j] < v}) < i
            /\ i <= Cardinality({j \in DOMAIN vals : vals[j] <= v})]

----------------------------------------------------------------------------
(* float64 values.  A value is the fraction num/den in lowest terms, den   *)
(* > 0; den = 0 stands for the IEEE specials: 1/0 is inf, -1/0 is -inf and *)
(* 0/0 is nan.  The arithmetic is exact: rounding error is not modelled.   *)

Abs(x) == IF x < 0 THEN -x ELSE x

Sign(x) == IF x > 0 THEN 1 ELSE IF x < 0 THEN -1 ELSE 0

RECURSIVE GCD(_, _)
GCD(a, b) == IF b = 0 THEN a ELSE GCD(b, a % b)

\* n/d for d # 0
Frac(n, d) ==
    LET g == GCD(Abs(n), Abs(d))
    IN  [num |-> (Sign(d) * n) \div g, den |-> Abs(d) \div g]

Num(n) == [num |-> n, den |-> 1]

NaN == [num |-> 0, den |-> 0]

IsNaN(x) == x.den = 0 /\ x.num = 0

IsFinite(x) == x.den # 0

FNeg(x) == [num |-> -x.num, den |-> x.den]

FAdd(x, y) ==
    IF IsFinite(x) /\ IsFinite(y)
    THEN Frac(x.num * y.den + y.num * x.den, x.den * y.den)
    ELSE IF IsNaN(x) \/ IsNaN(y) THEN NaN
    ELSE IF ~IsFinite(x) /\ ~IsFinite(y) THEN (IF x.num = y.num THEN x ELSE NaN)
    ELSE IF IsFinite(x) THEN y ELSE x

FSub(x, y) == FAdd(x, FNeg(y))

FMul(x, y) ==
    IF IsFinite(x) /\ IsFinite(y)
    THEN Frac(x.num * y.num, x.den * y.den)
    ELSE [num |-> Sign(x.num) * Sign(y.num), den |-> 0]

\* x / y of numpy: a zero divisor gives inf, -inf or nan, never an exception
FDiv(x, y) ==
    IF IsFinite(x) /\ IsFinite(y)
    THEN IF y.num = 0
         THEN [num |-> Sign(x.num), den |-> 0]
         ELSE Frac(x.num * y.den, x.den * y.num)
    ELSE IF IsNaN(x) \/ IsNaN(y) \/ (~IsFinite(x) /\ ~IsFinite(y)) THEN NaN
    ELSE IF IsFinite(x) THEN Num(0)
    ELSE [num |-> x.num * (IF y.num < 0 THEN -1 ELSE 1), den |-> 0]

\* x < y; every comparison with nan is false
FLess(x, y) ==
    IF IsNaN(x) \/ IsNaN(y) THEN FALSE
    ELSE IF IsFinite(x) /\ IsFinite(y) THEN x.num * y.den < y.num * x.den
    ELSE IF IsFinite(x) THEN y.num = 1
    ELSE IF IsFinite(y) THEN x.num = -1
    ELSE x.num < y.num

\* sum of integer column 'name' over the rows I of a frame
RECURSIVE SumColumn(_, _, _)
SumColumn(frame, name, I) ==
    IF I = {} THEN 0
    ELSE LET i == CHOOSE j \in I : TRUE
         IN  frame[i][name] + SumColumn(frame, name, I \ {i})

\* sum of integer column 'name' over a set of rows
RECURSIVE SumOver(_, _)
SumOver(rows, name) ==
    IF rows = {} THEN 0
    ELSE LET r == CHOOSE x \in rows : TRUE
         IN  r[name] + SumOver(rows \ {r}, name)

----------------------------------------------------------------------------
(* pandas.qcut(x, q=5, labels=..., duplicates='drop') and                  *)
(* Series.rank(method='first'), as called on lines 58-60 of 04.            *)

\* q of the three qcut calls
QCUT_Q == 5

R_LABELS_MutAscending == <<1, 2, 3, 4, 5>>

\* labels of line 58 (Recency: the lowest bucket scores 5)
R_LABELS == <<5, 4, 3, 2, 1>>
\* labels of lines 59-60
FM_LABELS == <<1, 2, 3, 4, 5>>

\* QCUT_Q times the k-th quantile boundary (k in 0..QCUT_Q) of the sorted
\* values s, by linear interpolation between the order statistics around
\* position k(n-1)/QCUT_Q
QuantileEdge(s, k) ==
    LET n  == Len(s)
        lo == (k * (n - 1)) \div QCUT_Q
        r  == (k * (n - 1)) % QCUT_Q
    IN  IF r = 0 THEN QCUT_Q * s[lo + 1]
        ELSE QCUT_Q * s[lo + 1] + r * (s[lo + 2] - s[lo + 1])

\* the bin edges after duplicates='drop': the distinct boundaries
UniqueBins(vals) ==
    LET s == SortedValues(vals)
    IN  {QuantileEdge(s, k) : k \in 0..QCUT_Q}

\* "Bin labels must be one fewer than the number of bin edges"
QcutRaises(vals, labels) == Len(labels) # Cardinality(UniqueBins(vals)) - 1

\* searchsorted(side='left') over the bins, the lowest value put in bin 1
BinIndex(bins, x) ==
    LET ids == Cardinality({b \in bins : b < QCUT_Q * x})
    IN  IF ids = 0 THEN 1 ELSE ids

\* the labelled column qcut returns when it does not raise
Qcut(vals, labels) ==
    LET bins == UniqueBins(vals)
    IN  [i \in DOMAIN vals |-> labels[BinIndex(bins, vals[i])]]

\* rank(method='first'): ties ranked in the order the rows appear
RankFirst(vals) ==
    [i \in DOMAIN vals |->
        Cardinality({j \in DOMAIN vals : vals[j] < vals[i]})
        + Cardinality({j \in DOMAIN vals : j < i /\ vals[j] = vals[i]}) + 1]

----------------------------------------------------------------------------
(* int -> str of a non-negative integer (astype(str)).                     *)

Digits == <<"0", "1", "2", "3", "4", "5", "6", "7", "8", "9">>

RECURSIVE IntToStr(_)
IntToStr(n) ==
    IF n < 10 THEN Digits[n + 1]
    ELSE IntToStr(n \div 10) \o Digits[(n % 10) + 1]

----------------------------------------------------------------------------
(* segment_customer, lines 78-123 of 04.                                   *)

segment_customer_MutOrder(row) ==
    LET r == row.R_Score
        f == row.F_Score
        m == row.M_Score
    IN  IF r >= 4 /\ f >= 4 /\ m >= 4 THEN "Champions"
        ELSE IF r >= 4 /\ f >= 2 /\ m >= 2 THEN "Potential Loyalist"
        ELSE IF r >= 3 /\ f >= 4 /\ m >= 3 THEN "Loyal Customers"
        ELSE IF r >= 4 /\ f = 1 THEN "New Customers"
        ELSE IF r >= 3 /\ f >= 2 /\ m >= 2 THEN "Promising"
        ELSE IF r >= 3 /\ f >= 3 /\ m >= 3 THEN "Need Attention"
        ELSE IF r >= 2 /\ r <= 3 THEN "About To Sleep"
        ELSE IF r <= 2 /\ f >= 3 /\ m >= 3 THEN "At Risk"
        ELSE IF r <= 2 /\ f >= 4 /\ m >= 4 THEN "Cannot Lose Them"
        ELSE IF r <= 2 /\ f <= 2 THEN "Hibernating"
        ELSE "Lost"

segment_customer(row) ==
    LET r == row.R_Score
        f == row.F_Score
        m == row.M_Score
    IN  IF r >= 4 /\ f >= 4 /\ m >= 4 THEN "Champions"
        ELSE IF r >= 3 /\ f >= 4 /\ m >= 3 THEN "Loyal Customers"
        ELSE IF r >= 4 /\ f >= 2 /\ m >= 2 THEN "Potential Loyalist"
        ELSE IF r >= 4 /\ f = 1 THEN "New Customers"
        ELSE IF r >= 3 /\ f >= 2 /\ m >= 2 THEN "Promising"
        ELSE IF r >= 3 /\ f >= 3 /\ m >= 3 THEN "Need Attention"
        ELSE IF r >= 2 /\ r <= 3 THEN "About To Sleep"
        ELSE IF r <= 2 /\ f >= 3 /\ m >= 3 THEN "At Risk"
        ELSE IF r <= 2 /\ f >= 4 /\ m >= 4 THEN "Cannot Lose Them"
        ELSE IF r <= 2 /\ f <= 2 THEN "Hibernating"
        ELSE "Lost"

----------------------------------------------------------------------------
(* 04, phase [2/7]: lines 54-75.                                           *)

ScoredRow_MutConcat(row, r, f, m) ==
    [R_Score   |-> r,
     F_Score   |-> f,
     M_Score   |-> m,
     RFM_Score |-> IntToStr(r) \o IntToStr(m) \o IntToStr(f),
     RFM_Total |-> r + f + m] @@ row

\* lines 63-73: the integer scores, RFM_Score and RFM_Total of one row
ScoredRow(row, r, f, m) ==
    [R_Score   |-> r,
     F_Score   |-> f,
     M_Score   |-> m,
     RFM_Score |-> IntToStr(r) \o IntToStr(f) \o IntToStr(m),
     RFM_Total |-> r + f + m] @@ row

\* line 58: R_Score is cut from the raw Recency values
RScoreInput(frame) == Column(frame, "Recency")
\* lines 59-60: F_Score and M_Score are cut from the rank of the raw values
FScoreInput(frame) == RankFirst(Column(frame, "Frequency"))
MScoreInput(frame) == RankFirst(Column(frame, "Monetary"))

\* whether one of the three qcut calls raises
ScoringRaises(frame) ==
    \/ QcutRaises(RScoreInput(frame), R_LABELS)
    \/ QcutRaises(FScoreInput(frame), FM_LABELS)
    \/ QcutRaises(MScoreInput(frame), FM_LABELS)

\* the dataframe after lines 58-73
ScoredFrame(frame) ==
    LET R == Qcut(RScoreInput(frame), R_LABELS)
        F == Qcut(FScoreInput(frame), FM_LABELS)
        M == Qcut(MScoreInput(frame), FM_LABELS)
    IN  [i \in DOMAIN frame |-> ScoredRow(frame[i], R[i], F[i], M[i])]

ScoreRFM ==
    /\ pc = "score"
    /\ IF ScoringRaises(rfm_data)
       THEN /\ pc' = "failed"
            /\ error' = "ValueError"
            /\ UNCHANGED rfm_data
       ELSE /\ pc' = "segment"
            /\ rfm_data' = ScoredFrame(rfm_data)
            /\ UNCHANGED error
    /\ UNCHANGED <<df, customer_groups, customer_regions, transactions,
                   customer_metrics, analysis_date>>
    /\ UNCHANGED <<segment_summary, results, cohortVars>>
    /\ UNCHANGED reportVars

(* 04, phase [3/7], line 125: rfm_data.apply(segment_customer, axis=1).    *)
SegmentCustomers ==
    /\ pc = "segment"
    /\ rfm_data' = [i \in DOMAIN rfm_data |->
                        [Segment |-> segment_customer(rfm_data[i])] @@ rfm_data[i]]
    /\ pc' = "segmented"
    /\ UNCHANGED <<df, customer_groups, customer_regions, transactions,
                   customer_metrics, analysis_date, error>>
    /\ UNCHANGED <<segment_summary, results, cohortVars>>
    /\ UNCHANGED reportVars

(* 04, phase [3/7], lines 129-143: one row per segment that occurs, with   *)
(* the columns Segment, Customers, TotalRevenue, AvgFrequency, AvgRecency, *)
(* RevenuePercent and CustomerPercent.                                     *)
SegmentRow_MutDistinct(frame, seg) ==
    LET I == {i \in DOMAIN frame : frame[i].Segment = seg}
        distinct == {frame[i].Monetary : i \in I}
        pick == [v \in distinct |-> CHOOSE i \in I : frame[i].Monetary = v]
    IN  [Segment      |-> seg,
         Customers    |-> Cardinality(I),
         TotalRevenue |-> SumColumn(frame, "Monetary", {pick[v] : v \in distinct}),
         AvgFrequency |-> FDiv(Num(SumColumn(frame, "Frequency", I)), Num(Cardinality(I))),
         AvgRecency   |-> FDiv(Num(SumColumn(frame, "Recency", I)), Num(Cardinality(I)))]

\* groupby('Segment').agg(count, sum, mean, mean) for one group
SegmentRow(frame, seg) ==
    LET I == {i \in DOMAIN frame : frame[i].Segment = seg}
    IN  [Segment      |-> seg,
         Customers    |-> Cardinality(I),
         TotalRevenue |-> SumColumn(frame, "Monetary", I),
         AvgFrequency |-> FDiv(Num(SumColumn(frame, "Frequency", I)), Num(Cardinality(I))),
         AvgRecency   |-> FDiv(Num(SumColumn(frame, "Recency", I)), Num(Cardinality(I)))]

\* lines 138-141: the two percentage columns
WithPercents(row, total_revenue, total_customers) ==
    [RevenuePercent  |-> FMul(FDiv(Num(row.TotalRevenue), Num(total_revenue)), Num(100)),
     CustomerPercent |-> FMul(FDiv(Num(row.Customers), Num(total_customers)), Num(100))]
    @@ row

SegmentSummaryRows(frame) ==
    LET grouped == {SegmentRow(frame, seg) : seg \in {frame[i].Segment : i \in DOMAIN frame}}
    IN  {WithPercents(g, SumOver(grouped, "TotalRevenue"), SumOver(grouped, "Customers")) :
            g \in grouped}

\* line 142: sort_values('TotalRevenue', ascending=False); the sort is not
\* stable, so rows of equal revenue come in any order
RECURSIVE DescendingOrders(_)
DescendingOrders(rows) ==
    IF rows = {} THEN {<<>>}
    ELSE UNION {{<<r>> \o o : o \in DescendingOrders(rows \ {r})} :
                  r \in {x \in rows : \A y \in rows : y.TotalRevenue <= x.TotalRevenue}}

SummarizeSegments ==
    /\ pc = "segmented"
    /\ segment_summary' \in DescendingOrders(SegmentSummaryRows(rfm_data))
    /\ pc' = "summarized"
    /\ UNCHANGED <<df, customer_groups, customer_regions, transactions,
                   customer_metrics, analysis_date, rfm_data, results,
                   cohortVars, error>>
    /\ UNCHANGED reportVars

----------------------------------------------------------------------------
(* Specification of segment_customer as a function of one scored row.      *)

Scores == 1..5

InitSegment ==
    /\ pc = "segment"
    /\ rfm_data \in {<<[CustomerID |-> 1, R_Score |-> r, F_Score |-> f, M_Score |-> m]>> :
                        r \in Scores, f \in Scores, m \in Scores}
    /\ df = {}
    /\ customer_groups = <<>>
    /\ customer_regions = <<>>
    /\ transactions = {}
    /\ customer_metrics = {}
    /\ analysis_date = 0
    /\ segment_summary = <<>>
    /\ results = <<>>
    /\ cohort_transactions = {}
    /\ cohort_data = {}
    /\ retention_matrix = <<>>
    /\ cohort_metrics = <<>>
    /\ comprehensive_metrics = <<>>
    /\ error = "none"
    /\ NoReport

SpecSegment == InitSegment /\ [][SegmentCustomers]_vars

----------------------------------------------------------------------------
(* Specification of the scoring phase over drawn customer tables: every    *)
(* table of 1..MaxCust customers, rows in store order, each with a Recency *)
(* and a Frequency, each order of customer c worth BasketValue(c).         *)

DrawnRows(n) == [1..n -> [Recency : RecencyValues, Frequency : FrequencyValues]]

InitScore ==
    /\ pc = "score"
    /\ \E n \in 1..MaxCust :
         \E f \in DrawnRows(n) :
            rfm_data = [i \in 1..n |->
                           [CustomerID |-> i,
                            Recency    |-> f[i].Recency,
                            Frequency  |-> f[i].Frequency,
                            Monetary   |-> f[i].Frequency * BasketValue(i)]]
    /\ df = {}
    /\ customer_groups = <<>>
    /\ customer_regions = <<>>
    /\ transactions = {}
    /\ customer_metrics = {}
    /\ analysis_date = 0
    /\ segment_summary = <<>>
    /\ results = <<>>
    /\ cohort_transactions = {}
    /\ cohort_data = {}
    /\ retention_matrix = <<>>
    /\ cohort_metrics = <<>>
    /\ comprehensive_metrics = <<>>
    /\ error = "none"
    /\ NoReport

NextScore == ScoreRFM \/ SegmentCustomers \/ SummarizeSegments

SpecScore == InitScore /\ [][NextScore]_vars

----------------------------------------------------------------------------
(* 04, phase [1/7]: lines 26-52, over the table 'transactions'.            *)
(* A row of the table carries the columns the phase reads: CustomerID,     *)
(* InvoiceNo, InvoiceDate (ticks) and Revenue.                             *)

RowsOf(tx, c) == {t \in tx : t.CustomerID = c}

CustomersOf(tx) == {t.CustomerID : t \in tx}

RECURSIVE SumRevenue(_)
SumRevenue(rows) ==
    IF rows = {} THEN 0
    ELSE LET t == CHOOSE u \in rows : TRUE
         IN  t.Revenue + SumRevenue(rows \ {t})

AnalysisDate_MutNoExtraDay(tx) == Max({t.InvoiceDate : t \in tx})

\* lines 29-30: SELECT MAX(InvoiceDate) FROM transactions, plus one day
AnalysisDate(tx) == Max({t.InvoiceDate : t \in tx}) + TicksPerDay

\* lines 35-47: one row of SELECT ... GROUP BY CustomerID
RfmRow(tx, c) ==
    [CustomerID        |-> c,
     LastPurchaseDate  |-> Max({t.InvoiceDate : t \in RowsOf(tx, c)}),
     Frequency         |-> Cardinality({t.InvoiceNo : t \in RowsOf(tx, c)}),
     Monetary          |-> SumRevenue(RowsOf(tx, c)),
     TotalTransactions |-> Cardinality(RowsOf(tx, c))]

\* line 52: (analysis_date - LastPurchaseDate).dt.days
WithRecency(row, date) ==
    [Recency |-> (date - row.LastPurchaseDate) \div TicksPerDay] @@ row

\* the orders in which the store may return the rows of a GROUP BY
RowOrders(S) ==
    {o \in [1..Cardinality(S) -> S] : \A i, j \in DOMAIN o : o[i] = o[j] => i = j}

LoadRFM ==
    /\ pc = "load"
    /\ analysis_date' = AnalysisDate(transactions)
    /\ \E o \in RowOrders(CustomersOf(transactions)) :
         rfm_data' = [i \in DOMAIN o |->
                          WithRecency(RfmRow(transactions, o[i]), analysis_date')]
    /\ pc' = "score"
    /\ UNCHANGED <<df, customer_groups, customer_regions, transactions,
                   customer_metrics, error>>
    /\ UNCHANGED <<segment_summary, results, cohortVars>>
    /\ UNCHANGED reportVars

\* the k-th invoice of the snapshot is issued at tick k
InvoiceTime(k) == k

TxRows(revenues) ==
    {[CustomerID  |-> c,
      InvoiceNo   |-> k,
      InvoiceDate |-> InvoiceTime(k),
      Revenue     |-> v] : c \in 1..MaxTxCust, k \in 1..MaxInvoice, v \in revenues}

\* the sets of at most k of the rows
RECURSIVE SubsetsUpTo(_, _)
SubsetsUpTo(rows, k) ==
    IF k = 0 THEN {{}}
    ELSE LET smaller == SubsetsUpTo(rows, k - 1)
         IN  smaller \cup {tx \cup {t} : tx \in smaller, t \in rows}

\* the non-empty tables of at most MaxTx rows
TablesOver(rows) == SubsetsUpTo(rows, MaxTx) \ {{}}

\* revenue of a line that passed the cleaning of 01 (Quantity > 0, UnitPrice > 0)
Revenues == {1, 2}
\* revenue of a line of a table that was not cleaned
RawRevenues == {-1, 1}

InitRFMOver(revenues) ==
    /\ pc = "load"
    /\ transactions \in TablesOver(TxRows(revenues))
    /\ rfm_data = <<>>
    /\ df = {}
    /\ customer_groups = <<>>
    /\ customer_regions = <<>>
    /\ customer_metrics = {}
    /\ analysis_date = 0
    /\ segment_summary = <<>>
    /\ results = <<>>
    /\ cohort_transactions = {}
    /\ cohort_data = {}
    /\ retention_matrix = <<>>
    /\ cohort_metrics = <<>>
    /\ comprehensive_metrics = <<>>
    /\ error = "none"
    /\ NoReport

----------------------------------------------------------------------------
(* 01, phases [5/6]-[7/7] (lines 98-160) and 02, phase [2/7] (lines        *)
(* 45-69).  A row of the cleaned dataframe carries CustomerID, InvoiceNo   *)
(* and Country; the random draws of numpy are choices over their ranges.   *)

TestGroups == {"Control", "Treatment"}

UK == "United Kingdom"
Countries == {UK, "France"}
\* two of the twelve entries of uk_regions
UKRegions == {"London", "Scotland"}

\* np.random.uniform(0.10, 0.20): two of the rates, in percent
DiscountRates == {10, 15}

\* lines 112-118: the discount columns of a row; a Control row has rate 0.
\* Revenue is a multiple of 20 units, so every amount is a whole number.
WithDiscount(row, rate) ==
    LET discounted == (row.Revenue * (100 - rate)) \div 100
    IN  [DiscountRate      |-> rate,
         DiscountedRevenue |-> discounted,
         DiscountAmount    |-> row.Revenue - discounted] @@ row

\* lines 103-118: one TestGroup is drawn per customer and merged on
\* CustomerID; one discount rate is drawn per Treatment row
AddABTestFields ==
    /\ pc = "ab_fields"
    /\ \E g \in [CustomersOf(df) -> TestGroups] :
        /\ customer_groups' = g
        /\ LET merged         == {[TestGroup |-> g[t.CustomerID]] @@ t : t \in df}
               treatment_mask == {t \in merged : t.TestGroup = "Treatment"}
           IN  \E rate \in [treatment_mask -> DiscountRates] :
                 df' = {WithDiscount(t, 0) : t \in merged \ treatment_mask}
                        \cup {WithDiscount(t, rate[t]) : t \in treatment_mask}
    /\ pc' = "regions"
    /\ UNCHANGED <<customer_regions, transactions, customer_metrics,
                   analysis_date, rfm_data, error>>
    /\ UNCHANGED <<segment_summary, results, cohortVars>>
    /\ UNCHANGED reportVars

\* lines 126-145: one Region is drawn per customer of the UK rows and merged
\* into them; every other row is 'International'
AddRegions ==
    /\ pc = "regions"
    /\ LET uk_data     == {t \in df : t.Country = UK}
           non_uk_data == {t \in df : t.Country # UK}
       IN  \E r \in [CustomersOf(uk_data) -> UKRegions] :
            /\ customer_regions' = r
            /\ df' = {[Region |-> r[t.CustomerID]] @@ t : t \in uk_data}
                     \cup {[Region |-> "International"] @@ t : t \in non_uk_data}
    /\ pc' = "create_db"
    /\ UNCHANGED <<customer_groups, transactions, customer_metrics,
                   analysis_date, rfm_data, error>>
    /\ UNCHANGED <<segment_summary, results, cohortVars>>
    /\ UNCHANGED reportVars

\* SQL MIN over timestamps
MinOf(S) == CHOOSE x \in S : \A y \in S : x <= y

\* SQL MAX(TestGroup): the largest of the strings
MaxTestGroup(rows) ==
    IF \E t \in rows : t.TestGroup = "Treatment" THEN "Treatment" ELSE "Control"

\* lines 163-180: CREATE TABLE customers AS SELECT ... GROUP BY CustomerID,
\* Country, with the columns taken from columns the rows carry
CustomersTable(tx) ==
    {LET rows == {t \in tx : <<t.CustomerID, t.Country>> = k}
     IN  [CustomerID        |-> k[1],
          Country           |-> k[2],
          TestGroup         |-> MaxTestGroup(rows),
          FirstPurchaseDate |-> MinOf({t.InvoiceDate : t \in rows}),
          LastPurchaseDate  |-> Max({t.InvoiceDate : t \in rows}),
          TotalOrders       |-> Cardinality({t.InvoiceNo : t \in rows}),
          TotalRevenue      |-> SumOver(rows, "Revenue"),
          AvgOrderValue     |->
              FDiv(Num(SumOver(rows, "Revenue")), Num(Cardinality(rows)))] :
        k \in {<<t.CustomerID, t.Country>> : t \in tx}}

\* lines 156-180: CREATE TABLE transactions AS SELECT * FROM df, then the
\* table customers
CreateDatabase ==
    /\ pc = "create_db"
    /\ transactions' = df
    /\ customers' = CustomersTable(df)
    /\ pc' = "ab_load"
    /\ UNCHANGED <<df, customer_groups, customer_regions, customer_metrics,
                   analysis_date, rfm_data, error>>
    /\ UNCHANGED <<segment_summary, results, cohortVars>>
    /\ UNCHANGED <<metrics, files, task, observed, previous>>

CustomerMetrics_MutPerInvoice(tx) ==
    {[CustomerID        |-> k[1],
      TestGroup         |-> k[2],
      InvoiceNo         |-> k[3],
      TotalOrders       |-> 1,
      TotalRevenue      |->
          SumOver({t \in tx : <<t.CustomerID, t.TestGroup, t.InvoiceNo>> = k}, "Revenue"),
      TotalDiscountedRevenue |->
          SumOver({t \in tx : <<t.CustomerID, t.TestGroup, t.InvoiceNo>> = k},
                  "DiscountedRevenue"),
      TotalDiscountAmount |->
          SumOver({t \in tx : <<t.CustomerID, t.TestGroup, t.InvoiceNo>> = k},
                  "DiscountAmount"),
      AvgOrderValue     |->
          FDiv(Num(SumOver({t \in tx : <<t.CustomerID, t.TestGroup, t.InvoiceNo>> = k},
                           "Revenue")),
               Num(Cardinality({t \in tx :
                                  <<t.CustomerID, t.TestGroup, t.InvoiceNo>> = k}))),
      TotalTransactions |->
          Cardinality({t \in tx : <<t.CustomerID, t.TestGroup, t.InvoiceNo>> = k})] :
        k \in {<<t.CustomerID, t.TestGroup, t.InvoiceNo>> : t \in tx}}

\* 02, lines 48-63: SELECT ... FROM transactions GROUP BY CustomerID, TestGroup
\* (without the columns TotalItems, FirstPurchase and LastPurchase, which the
\* script never reads)
CustomerMetrics(tx) ==
    {LET rows == {t \in tx : <<t.CustomerID, t.TestGroup>> = k}
     IN  [CustomerID             |-> k[1],
          TestGroup              |-> k[2],
          TotalOrders            |-> Cardinality({t.InvoiceNo : t \in rows}),
          TotalRevenue           |-> SumOver(rows, "Revenue"),
          TotalDiscountedRevenue |-> SumOver(rows, "DiscountedRevenue"),
          TotalDiscountAmount    |-> SumOver(rows, "DiscountAmount"),
          AvgOrderValue          |->
              FDiv(Num(SumOver(rows, "Revenue")), Num(Cardinality(rows))),
          TotalTransactions      |-> Cardinality(rows)] :
        k \in {<<t.CustomerID, t.TestGroup>> : t \in tx}}

\* 02, lines 65-66: the two samples every statistic is taken over
control_customers == {m \in customer_metrics : m.TestGroup = "Control"}
treatment_customers == {m \in customer_metrics : m.TestGroup = "Treatment"}

AggregateCustomerMetrics ==
    /\ pc = "ab_load"
    /\ customer_metrics' = CustomerMetrics(transactions)
    /\ pc' = "ab_metrics"
    /\ UNCHANGED <<df, customer_groups, customer_regions, transactions,
                   analysis_date, rfm_data, error>>
    /\ UNCHANGED <<segment_summary, results, cohortVars>>
    /\ UNCHANGED reportVars

\* invoice numbers of a drawn dataframe
DfInvoices == {1, 2}

\* every line of customer c is worth 20 x BasketValue(c) units
DfRows ==
    {[CustomerID |-> c, InvoiceNo |-> k, InvoiceDate |-> InvoiceTime(k),
      Country |-> country, Revenue |-> 20 * BasketValue(c)] :
        c \in 1..MaxTxCust, k \in DfInvoices, country \in Countries}

InitPrep ==
    /\ pc = "ab_fields"
    /\ df \in TablesOver(DfRows)
    /\ customer_groups = <<>>
    /\ customer_regions = <<>>
    /\ transactions = {}
    /\ customer_metrics = {}
    /\ analysis_date = 0
    /\ rfm_data = <<>>
    /\ segment_summary = <<>>
    /\ results = <<>>
    /\ cohort_transactions = {}
    /\ cohort_data = {}
    /\ retention_matrix = <<>>
    /\ cohort_metrics = <<>>
    /\ comprehensive_metrics = <<>>
    /\ error = "none"
    /\ NoReport

NextPrep ==
    AddABTestFields \/ AddRegions \/ CreateDatabase \/ AggregateCustomerMetrics

\* 01 from the cleaned dataframe on, then the customer aggregation of 02
SpecPrep == InitPrep /\ [][NextPrep]_vars

----------------------------------------------------------------------------
(* 03_cohort_analysis.py over the table 'transactions'.  Here InvoiceDate  *)
(* carries its calendar fields [year, month, day]; a 'YYYY-MM' string is   *)
(* the sequence of its characters.                                         *)

DateLess(a, b) ==
    \/ a.year < b.year
    \/ a.year = b.year /\ a.month < b.month
    \/ a.year = b.year /\ a.month = b.month /\ a.day < b.day

\* SQL MIN(InvoiceDate)
MinDate(dates) == CHOOSE d \in dates : \A e \in dates : ~DateLess(e, d)

Pad2(n) == <<Digits[(n \div 10) + 1], Digits[(n % 10) + 1]>>

\* strftime(date, '%Y-%m')
StrfYearMonth(date) ==
    Pad2(date.year \div 100) \o Pad2(date.year % 100) \o <<"-">> \o Pad2(date.month)

DigitValue(ch) == CHOOSE v \in 0..9 : Digits[v + 1] = ch

\* pd.Period('YYYY-MM', freq='M')
ParsePeriod(str) ==
    [year  |-> 1000 * DigitValue(str[1]) + 100 * DigitValue(str[2])
                 + 10 * DigitValue(str[3]) + DigitValue(str[4]),
     month |-> 10 * DigitValue(str[6]) + DigitValue(str[7])]

\* Series.dt.to_period('M')
ToPeriodM(date) == [year |-> date.year, month |-> date.month]

\* the month count a monthly Period stands for; the difference of two
\* Periods is the difference of their counts
PeriodOrdinal(period) == period.year * 12 + (period.month - 1)

get_cohort_period_MutSameYear(row) ==
    row.InvoiceMonth.month - ParsePeriod(row.CohortMonth).month

\* lines 65-68
get_cohort_period(row) ==
    LET cohort_date    == ParsePeriod(row.CohortMonth)
        invoice_period == row.InvoiceMonth
    IN  PeriodOrdinal(invoice_period) - PeriodOrdinal(cohort_date)

\* lines 45-52: one row per customer
customer_cohorts(tx) ==
    [c \in CustomersOf(tx) |->
        LET first == MinDate({t.InvoiceDate : t \in RowsOf(tx, c)})
        IN  [FirstPurchaseDate |-> first, CohortMonth |-> StrfYearMonth(first)]]

\* phases [1/6]-[2/6], lines 28-70
AssignCohorts ==
    /\ pc = "cohort_load"
    /\ LET cohorts == customer_cohorts(transactions)
           merged  == {[CohortMonth  |-> cohorts[t.CustomerID].CohortMonth,
                        InvoiceMonth |-> ToPeriodM(t.InvoiceDate)] @@ t :
                          t \in transactions}
       IN  cohort_transactions' =
              {[MonthsSinceFirst |-> get_cohort_period(m)] @@ m : m \in merged}
    /\ pc' = "cohort_matrix"
    /\ UNCHANGED <<df, customer_groups, customer_regions, transactions,
                   customer_metrics, analysis_date, rfm_data, segment_summary,
                   results, cohort_data, retention_matrix, cohort_metrics,
                   comprehensive_metrics, error>>
    /\ UNCHANGED reportVars

CohortGroups_MutCount(ctx) ==
    {[CohortMonth      |-> k[1],
      MonthsSinceFirst |-> k[2],
      Customers        |->
          Cardinality({t \in ctx : <<t.CohortMonth, t.MonthsSinceFirst>> = k}),
      Revenue          |->
          SumOver({t \in ctx : <<t.CohortMonth, t.MonthsSinceFirst>> = k}, "Revenue")] :
        k \in {<<t.CohortMonth, t.MonthsSinceFirst>> : t \in ctx}}

\* lines 78-83: groupby(['CohortMonth', 'MonthsSinceFirst']).agg(nunique, sum)
CohortGroups(ctx) ==
    {[CohortMonth      |-> k[1],
      MonthsSinceFirst |-> k[2],
      Customers        |->
          Cardinality({t.CustomerID :
                         t \in {u \in ctx : <<u.CohortMonth, u.MonthsSinceFirst>> = k}}),
      Revenue          |->
          SumOver({t \in ctx : <<t.CohortMonth, t.MonthsSinceFirst>> = k}, "Revenue")] :
        k \in {<<t.CohortMonth, t.MonthsSinceFirst>> : t \in ctx}}

\* lines 86-90: the month-0 rows, left-merged on CohortMonth; a cohort
\* without such a row would get nan
CohortSize(groups, cohort) ==
    LET zero == {g \in groups : g.CohortMonth = cohort /\ g.MonthsSinceFirst = 0}
    IN  IF zero = {} THEN NaN ELSE Num((CHOOSE g \in zero : TRUE).Customers)

\* lines 78-93
CohortData(ctx) ==
    LET groups == CohortGroups(ctx)
    IN  {LET size == CohortSize(groups, g.CohortMonth)
         IN  [CohortSize    |-> size,
              RetentionRate |-> FMul(FDiv(Num(g.Customers), size), Num(100))] @@ g :
            g \in groups}

\* the sequence of the integers of S in ascending order
RECURSIVE Ascending(_)
Ascending(S) ==
    IF S = {} THEN <<>>
    ELSE LET m == CHOOSE x \in S : \A y \in S : x <= y
         IN  <<m>> \o Ascending(S \ {m})

\* 'YYYY-MM' strings in ascending (which is chronological) order
SortedMonths(months) ==
    LET ordinals == Ascending({PeriodOrdinal(ParsePeriod(m)) : m \in months})
    IN  [i \in DOMAIN ordinals |->
            CHOOSE m \in months : PeriodOrdinal(ParsePeriod(m)) = ordinals[i]]

\* lines 96-98: pivot(index, columns, values).  The index and the columns
\* are the values that occur, sorted; a pair that does not occur is nan.
Pivot(cd) ==
    LET cohorts == {r.CohortMonth : r \in cd}
        periods == {r.MonthsSinceFirst : r \in cd}
    IN  [index   |-> SortedMonths(cohorts),
         columns |-> Ascending(periods),
         cell    |-> [c \in cohorts, k \in periods |->
                        LET rows == {r \in cd : r.CohortMonth = c /\ r.MonthsSinceFirst = k}
                        IN  IF rows = {} THEN NaN
                            ELSE (CHOOSE r \in rows : TRUE).RetentionRate]]

\* phase [3/6], lines 78-98
BuildRetentionMatrix ==
    /\ pc = "cohort_matrix"
    /\ cohort_data' = CohortData(cohort_transactions)
    /\ retention_matrix' = Pivot(cohort_data')
    /\ pc' = "cohort_metrics"
    /\ UNCHANGED <<df, customer_groups, customer_regions, transactions,
                   customer_metrics, analysis_date, rfm_data, segment_summary,
                   results, cohort_transactions, cohort_metrics,
                   comprehensive_metrics, error>>
    /\ UNCHANGED reportVars

\* the cells of column k, top to bottom
MatrixColumn(matrix, k) ==
    [i \in DOMAIN matrix.index |-> matrix.cell[matrix.index[i], k]]

DropNa_MutFillZero(values) ==
    [i \in DOMAIN values |-> IF IsNaN(values[i]) THEN Num(0) ELSE values[i]]

\* Series.dropna(), and the skipna of DataFrame.mean
DropNa(values) == SelectSeq(values, LAMBDA v : ~IsNaN(v))

RECURSIVE FSum(_)
FSum(values) ==
    IF values = <<>> THEN Num(0) ELSE FAdd(Head(values), FSum(Tail(values)))

\* Series.mean(); nan for no values
Mean(values) == FDiv(FSum(values), Num(Len(values)))

RECURSIVE FSorted(_)
FSorted(values) ==
    IF values = <<>> THEN <<>>
    ELSE LET rest == FSorted(Tail(values))
             x    == Head(values)
             k    == Cardinality({i \in DOMAIN rest : FLess(rest[i], x)})
         IN  SubSeq(rest, 1, k) \o <<x>> \o SubSeq(rest, k + 1, Len(rest))

\* Series.median(); nan for no values
Median(values) ==
    LET sorted == FSorted(values)
        n      == Len(values)
    IN  IF n = 0 THEN NaN
        ELSE IF n % 2 = 1 THEN sorted[(n + 1) \div 2]
        ELSE FDiv(FAdd(sorted[n \div 2], sorted[(n \div 2) + 1]), Num(2))

\* line 112: range(retention_matrix.shape[1])
PeriodRange(matrix) == 0..(Len(matrix.columns) - 1)

\* line 113: retention_matrix[months] looks the label up among the columns
RaisesKeyError(matrix) ==
    \E months \in PeriodRange(matrix) : months \notin Range(matrix.columns)

\* lines 112-116: the two entries of one period
PeriodMetrics(matrix, months) ==
    LET retention_values == DropNa(MatrixColumn(matrix, months))
    IN  IF Len(retention_values) > 0
        THEN (("month_" \o IntToStr(months) \o "_avg_retention")
                  :> Mean(retention_values))
             @@ (("month_" \o IntToStr(months) \o "_median_retention")
                  :> Median(retention_values))
        ELSE <<>>

RECURSIVE MergeAll(_, _)
MergeAll(f, I) ==
    IF I = {} THEN <<>>
    ELSE LET i == CHOOSE j \in I : TRUE
         IN  f[i] @@ MergeAll(f, I \ {i})

\* line 119 and line 123: churn_matrix.mean(axis=0), one value per column
avg_churn_by_period(matrix) ==
    [j \in DOMAIN matrix.columns |->
        Mean(DropNa([i \in DOMAIN matrix.index |->
                        FSub(Num(100), matrix.cell[matrix.index[i], matrix.columns[j]])]))]

baseline_churn_MutFirstPeriod(matrix) ==
    IF Len(avg_churn_by_period(matrix)) > 1
    THEN avg_churn_by_period(matrix)[1]
    ELSE Num(0)

\* line 147: iloc[1] is the second column
baseline_churn(matrix) ==
    IF Len(avg_churn_by_period(matrix)) > 1
    THEN avg_churn_by_period(matrix)[2]
    ELSE Num(0)

\* lines 148-149
target_churn(baseline) == FMul(baseline, Frac(86, 100))

churn_reduction_pct(baseline) ==
    IF FLess(Num(0), baseline)
    THEN FMul(FDiv(FSub(baseline, target_churn(baseline)), baseline), Num(100))
    ELSE Num(0)

\* the instants datetime.now() can return
Clock == {1, 2}

\* lines 110-165
CohortMetrics(matrix, now) ==
    MergeAll([months \in PeriodRange(matrix) |-> PeriodMetrics(matrix, months)],
             PeriodRange(matrix))
    @@ [baseline_month1_churn |-> baseline_churn(matrix),
        target_month1_churn   |-> target_churn(baseline_churn(matrix)),
        churn_reduction_pct   |-> churn_reduction_pct(baseline_churn(matrix)),
        analysis_date         |-> now,
        total_cohorts         |-> Len(matrix.index),
        max_cohort_age_months |-> Len(matrix.columns) - 1]

\* phases [4/6]-[5/6], lines 110-168: the metrics are written when no lookup
\* has raised
CalculateCohortMetrics ==
    /\ pc = "cohort_metrics"
    /\ IF RaisesKeyError(retention_matrix)
       THEN /\ pc' = "failed"
            /\ error' = "KeyError"
            /\ UNCHANGED cohort_metrics
       ELSE /\ pc' = "cohort_done"
            /\ \E now \in Clock :
                 cohort_metrics' = CohortMetrics(retention_matrix, now)
            /\ UNCHANGED error
    /\ UNCHANGED <<df, customer_groups, customer_regions, transactions,
                   customer_metrics, analysis_date, rfm_data, segment_summary,
                   results, cohort_transactions, cohort_data, retention_matrix,
                   comprehensive_metrics>>
    /\ UNCHANGED reportVars

\* dict.get(key, default)
Get(dict, key, default) == IF key \in DOMAIN dict THEN dict[key] ELSE default

\* 05, lines 31-32 and 134-143: the section 'retention' of the consolidated
\* record, from the dictionary read back from cohort_metrics.json
RetentionSection(cohort_results) ==
    [month_0_retention_pct      |-> Get(cohort_results, "month_0_avg_retention", Num(100)),
     month_1_retention_pct      |-> Get(cohort_results, "month_1_avg_retention", Num(0)),
     month_2_retention_pct      |-> Get(cohort_results, "month_2_avg_retention", Num(0)),
     month_3_retention_pct      |-> Get(cohort_results, "month_3_avg_retention", Num(0)),
     baseline_churn_pct         |-> Get(cohort_results, "baseline_month1_churn", Num(0)),
     target_churn_pct           |-> Get(cohort_results, "target_month1_churn", Num(0)),
     churn_reduction_target_pct |-> Get(cohort_results, "churn_reduction_pct", Num(14)),
     avg_ltv                    |-> Get(cohort_results, "month_0_avg_retention", Num(0))]

\* 05, phase [3/5]
ConsolidateRetention ==
    /\ pc = "cohort_done"
    /\ comprehensive_metrics' = [retention |-> RetentionSection(cohort_metrics)]
    /\ pc' = "consolidated"
    /\ UNCHANGED <<df, customer_groups, customer_regions, transactions,
                   customer_metrics, analysis_date, rfm_data, segment_summary,
                   results, cohort_transactions, cohort_data, retention_matrix,
                   cohort_metrics, error>>
    /\ UNCHANGED reportVars

\* 03, line 23: the analysis is started once more over the same table, when
\* the outputs of the run before are on disk; previous keeps what they held
RunAgain ==
    /\ pc = "consolidated"
    /\ previous = <<>>
    /\ previous' = [cohort_metrics        |-> cohort_metrics,
                    comprehensive_metrics |-> comprehensive_metrics]
    /\ cohort_transactions' = {}
    /\ cohort_data' = {}
    /\ retention_matrix' = <<>>
    /\ pc' = "cohort_load"
    /\ UNCHANGED <<df, customer_groups, customer_regions, transactions,
                   customer_metrics, analysis_date, rfm_data, segment_summary,
                   results, cohort_metrics, comprehensive_metrics, error>>
    /\ UNCHANGED <<metrics, customers, files, task, observed>>

\* the timestamps of a drawn snapshot
CohortDates ==
    {[year |-> 2024, month |-> 12, day |-> 31],
     [year |-> 2025, month |-> 1,  day |-> 15],
     [year |-> 2025, month |-> 2,  day |-> 1]}

CohortTxRows ==
    {[CustomerID  |-> c,
      InvoiceNo   |-> k,
      InvoiceDate |-> d,
      Revenue     |-> BasketValue(c)] :
        c \in 1..MaxTxCust, k \in DfInvoices, d \in CohortDates}

InitCohort ==
    /\ pc = "cohort_load"
    /\ transactions \in TablesOver(CohortTxRows)
    /\ df = {}
    /\ customer_groups = <<>>
    /\ customer_regions = <<>>
    /\ customer_metrics = {}
    /\ analysis_date = 0
    /\ rfm_data = <<>>
    /\ segment_summary = <<>>
    /\ results = <<>>
    /\ cohort_transactions = {}
    /\ cohort_data = {}
    /\ retention_matrix = <<>>
    /\ cohort_metrics = <<>>
    /\ comprehensive_metrics = <<>>
    /\ error = "none"
    /\ NoReport

NextCohort ==
    AssignCohorts \/ BuildRetentionMatrix \/ CalculateCohortMetrics
        \/ ConsolidateRetention

\* 03 over a table written by 01, then the retention section of 05
SpecCohort == InitCohort /\ [][NextCohort]_vars

NextRerun == NextCohort \/ RunAgain

\* 03 and the section of 05 that reads its output, run twice over one table
SpecRerun == InitCohort /\ [][NextRerun]_vars

----------------------------------------------------------------------------
(* 02_ab_testing_analysis.py from phase [3/7] on.  A statistic that is a   *)
(* square root times a sign is kept as its sign and its square; a p-value  *)
(* is kept as its position relative to 0.05, which is all the script reads *)
(* from it.                                                                *)

\* an integer column of a sample as a Series of float64 values
RECURSIVE SampleValues(_, _)
SampleValues(rows, name) ==
    IF rows = {} THEN <<>>
    ELSE LET r == CHOOSE x \in rows : TRUE
         IN  <<Num(r[name])>> \o SampleValues(rows \ {r}, name)

\* a float column of a sample
RECURSIVE SampleFloats(_, _)
SampleFloats(rows, name) ==
    IF rows = {} THEN <<>>
    ELSE LET r == CHOOSE x \in rows : TRUE
         IN  <<r[name]>> \o SampleFloats(rows \ {r}, name)

\* the sum of the squared deviations from the mean
SumSquares(values) ==
    FSum([i \in DOMAIN values |->
            FMul(FSub(values[i], Mean(values)), FSub(values[i], Mean(values)))])

\* Series.var(): ddof = 1, nan for fewer than two values
Var(values) ==
    IF Len(values) <= 1 THEN NaN
    ELSE FDiv(SumSquares(values), Num(Len(values) - 1))

\* the value sign(x) * sqrt(square)
SignedRoot(x, square) ==
    [sign |-> IF IsNaN(square) THEN 0 ELSE Sign(x.num), sq |-> square]

\* lines 77-79
control_revenue == Num(SumOver(control_customers, "TotalRevenue"))
treatment_revenue == Num(SumOver(treatment_customers, "TotalDiscountedRevenue"))
treatment_cost == Num(SumOver(treatment_customers, "TotalDiscountAmount"))

RevenueUpliftPct_MutOverTreatment(control, treatment) ==
    FMul(FDiv(FSub(treatment, control), treatment), Num(100))

\* line 84
RevenueUpliftPct(control, treatment) ==
    FMul(FDiv(FSub(treatment, control), control), Num(100))

Roi_MutCostNotSubtracted(control, treatment, cost) ==
    IF FLess(Num(0), cost)
    THEN FMul(FDiv(FSub(treatment, control), cost), Num(100))
    ELSE Num(0)

\* line 85
Roi(control, treatment, cost) ==
    IF FLess(Num(0), cost)
    THEN FMul(FDiv(FSub(FSub(treatment, control), cost), cost), Num(100))
    ELSE Num(0)

\* (treatment - control) / control * 100 of lines 97-99 and 105
ChangePct(control, treatment) ==
    FMul(FDiv(FSub(treatment, control), control), Num(100))

\* phase [3/7], lines 73-105
CalculateABMetrics ==
    /\ pc = "ab_metrics"
    /\ LET control_orders   == Mean(SampleValues(control_customers, "TotalOrders"))
           treatment_orders == Mean(SampleValues(treatment_customers, "TotalOrders"))
           control_aov      == Mean(SampleFloats(control_customers, "AvgOrderValue"))
           treatment_aov    == Mean(SampleFloats(treatment_customers, "AvgOrderValue"))
       IN  results' =
             [control_revenue    |-> control_revenue,
              treatment_revenue  |-> treatment_revenue,
              treatment_cost     |-> treatment_cost,
              revenue_uplift_pct |-> RevenueUpliftPct(control_revenue, treatment_revenue),
              roi                |-> Roi(control_revenue, treatment_revenue, treatment_cost),
              control_customers   |-> Cardinality(control_customers),
              treatment_customers |-> Cardinality(treatment_customers),
              control_avg_revenue_per_customer   |->
                  Mean(SampleValues(control_customers, "TotalRevenue")),
              treatment_avg_revenue_per_customer |->
                  Mean(SampleValues(treatment_customers, "TotalDiscountedRevenue")),
              control_avg_orders_per_customer    |-> control_orders,
              treatment_avg_orders_per_customer  |-> treatment_orders,
              order_frequency_uplift_pct |-> ChangePct(control_orders, treatment_orders),
              control_aov    |-> control_aov,
              treatment_aov  |-> treatment_aov,
              aov_change_pct |-> ChangePct(control_aov, treatment_aov)]
    /\ pc' = "ab_tests"
    /\ UNCHANGED <<df, customer_groups, customer_regions, transactions,
                   customer_metrics, analysis_date, rfm_data, segment_summary,
                   cohortVars, error>>
    /\ UNCHANGED reportVars

\* squares of the two-sided 5% points of Student's t, t.ppf(0.975, df) for
\* df = 1..6, to two decimals
TCritSquared ==
    <<Frac(16145, 100), Frac(1851, 100), Frac(1013, 100),
      Frac(771, 100), Frac(661, 100), Frac(599, 100)>>

\* t.ppf(0.975, df) squared; nan for df < 1
TPpfSquared(deg) == IF deg < 1 THEN NaN ELSE TCritSquared[deg]

\* the p-value of a two-sided t-test from the square of its statistic
TwoSidedP(t_squared, deg) ==
    IF IsNaN(t_squared) \/ deg < 1 THEN "nan"
    ELSE IF FLess(TPpfSquared(deg), t_squared) THEN "lt_0.05"
    ELSE "ge_0.05"

\* the variance scipy pools for a sample: the variance of one observation is
\* nan, which some releases of scipy replace by 0
PooledVariances(values) ==
    IF Len(values) = 1 THEN {NaN, Num(0)} ELSE {Var(values)}

\* stats.ttest_ind(a, b), equal variances: the results it can return
TTestInd(a, b) ==
    {LET n1   == Len(a)
         n2   == Len(b)
         deg  == n1 + n2 - 2
         diff == FSub(Mean(a), Mean(b))
         svar == FDiv(FAdd(FMul(Num(n1 - 1), v1), FMul(Num(n2 - 1), v2)), Num(deg))
         t_sq == FDiv(FMul(diff, diff),
                      FMul(svar, FAdd(FDiv(Num(1), Num(n1)), FDiv(Num(1), Num(n2)))))
     IN  [statistic |-> SignedRoot(diff, t_sq), pvalue |-> TwoSidedP(t_sq, deg)] :
        v1 \in PooledVariances(a), v2 \in PooledVariances(b)}

cohens_d_MutControlSpread(group1, group2) ==
    LET diff == FSub(Mean(group1), Mean(group2))
    IN  SignedRoot(diff, FDiv(FMul(diff, diff), Var(group2)))

\* lines 154-158
cohens_d(group1, group2) ==
    LET n1   == Len(group1)
        n2   == Len(group2)
        var1 == Var(group1)
        var2 == Var(group2)
        pooled_var == FDiv(FAdd(FMul(Num(n1 - 1), var1), FMul(Num(n2 - 1), var2)),
                           Num(n1 + n2 - 2))
        diff == FSub(Mean(group1), Mean(group2))
    IN  SignedRoot(diff, FDiv(FMul(diff, diff), pooled_var))

\* lines 175-180: the interval mean -/+ margin, with the square of margin
confidence_interval(data) ==
    LET n         == Len(data)
        sem_sq    == FDiv(Var(data), Num(n))
        margin_sq == FMul(sem_sq, TPpfSquared(n - 1))
    IN  [lower |-> [mean |-> Mean(data), side |-> -1, margin_sq |-> margin_sq],
         upper |-> [mean |-> Mean(data), side |-> 1,  margin_sq |-> margin_sq]]

\* p < 0.05
BelowAlpha(p) == p = "lt_0.05"

\* phase [4/7], lines 126-188
StatisticalTests ==
    /\ pc = "ab_tests"
    /\ LET control_rev   == SampleValues(control_customers, "TotalRevenue")
           treatment_rev == SampleValues(treatment_customers, "TotalDiscountedRevenue")
           control_ord   == SampleValues(control_customers, "TotalOrders")
           treatment_ord == SampleValues(treatment_customers, "TotalOrders")
           control_ci    == confidence_interval(control_rev)
           treatment_ci  == confidence_interval(treatment_rev)
       IN  \E rev \in TTestInd(control_rev, treatment_rev) :
           \E ord \in TTestInd(control_ord, treatment_ord) :
             results' =
               [t_stat_revenue      |-> rev.statistic,
                p_value_revenue     |-> rev.pvalue,
                significant_revenue |-> BelowAlpha(rev.pvalue),
                t_stat_orders       |-> ord.statistic,
                p_value_orders      |-> ord.pvalue,
                significant_orders  |-> BelowAlpha(ord.pvalue),
                cohens_d_revenue    |-> cohens_d(treatment_rev, control_rev),
                cohens_d_orders     |-> cohens_d(treatment_ord, control_ord),
                control_revenue_ci_lower   |-> control_ci.lower,
                control_revenue_ci_upper   |-> control_ci.upper,
                treatment_revenue_ci_lower |-> treatment_ci.lower,
                treatment_revenue_ci_upper |-> treatment_ci.upper] @@ results
    /\ pc' = "ab_behavior"
    /\ UNCHANGED <<df, customer_groups, customer_regions, transactions,
                   customer_metrics, analysis_date, rfm_data, segment_summary,
                   cohortVars, error>>
    /\ UNCHANGED reportVars

\* lines 198-199
control_repeat == Cardinality({m \in control_customers : m.TotalOrders > 1})
treatment_repeat == Cardinality({m \in treatment_customers : m.TotalOrders > 1})

\* lines 214-217
contingency_table ==
    <<<<control_repeat, Cardinality(control_customers) - control_repeat>>,
      <<treatment_repeat, Cardinality(treatment_customers) - treatment_repeat>>>>

\* the table of expected frequencies of a 2 x 2 table
ExpectedFrequencies(table) ==
    LET total == table[1][1] + table[1][2] + table[2][1] + table[2][2]
    IN  [i \in 1..2 |-> [j \in 1..2 |->
            FDiv(Num((table[i][1] + table[i][2]) * (table[1][j] + table[2][j])),
                 Num(total))]]

\* stats.chi2_contingency raises ValueError for an expected frequency of 0
Chi2Raises(table) ==
    \E i, j \in 1..2 : ExpectedFrequencies(table)[i][j] = Num(0)

\* the statistic of a 2 x 2 table, with the continuity correction of Yates
Chi2Statistic(table) ==
    LET expected == ExpectedFrequencies(table)
        term(i, j) ==
            LET diff   == FSub(expected[i][j], Num(table[i][j]))
                dist   == IF FLess(diff, Num(0)) THEN FNeg(diff) ELSE diff
                moved  == IF FLess(dist, Frac(1, 2)) THEN Num(0)
                          ELSE FSub(dist, Frac(1, 2))
            IN  FDiv(FMul(moved, moved), expected[i][j])
    IN  FAdd(FAdd(term(1, 1), term(1, 2)), FAdd(term(2, 1), term(2, 2)))

\* the 5% point of chi-square with one degree of freedom
Chi2Crit == Frac(3841, 1000)

Chi2P(statistic) ==
    IF IsNaN(statistic) THEN "nan"
    ELSE IF FLess(Chi2Crit, statistic) THEN "lt_0.05"
    ELSE "ge_0.05"

RepeatRate(repeat, group_size) ==
    FMul(FDiv(Num(repeat), Num(group_size)), Num(100))

\* phase [5/7], lines 198-222
AnalyzeBehavior ==
    /\ pc = "ab_behavior"
    /\ IF Chi2Raises(contingency_table)
       THEN /\ pc' = "failed"
            /\ error' = "ValueError"
            /\ results' =
                 [control_repeat_rate    |->
                      RepeatRate(control_repeat, Cardinality(control_customers)),
                  treatment_repeat_rate  |->
                      RepeatRate(treatment_repeat, Cardinality(treatment_customers)),
                  repeat_rate_uplift_pct |->
                      FSub(RepeatRate(treatment_repeat, Cardinality(treatment_customers)),
                           RepeatRate(control_repeat, Cardinality(control_customers)))]
                 @@ results
       ELSE /\ pc' = "ab_save"
            /\ results' =
                 [control_repeat_rate    |->
                      RepeatRate(control_repeat, Cardinality(control_customers)),
                  treatment_repeat_rate  |->
                      RepeatRate(treatment_repeat, Cardinality(treatment_customers)),
                  repeat_rate_uplift_pct |->
                      FSub(RepeatRate(treatment_repeat, Cardinality(treatment_customers)),
                           RepeatRate(control_repeat, Cardinality(control_customers))),
                  chi2_stat    |-> Chi2Statistic(contingency_table),
                  p_value_chi2 |-> Chi2P(Chi2Statistic(contingency_table)),
                  significant_repeat_rate |->
                      BelowAlpha(Chi2P(Chi2Statistic(contingency_table)))] @@ results
            /\ UNCHANGED error
    /\ UNCHANGED <<df, customer_groups, customer_regions, transactions,
                   customer_metrics, analysis_date, rfm_data, segment_summary,
                   cohortVars>>
    /\ UNCHANGED reportVars

\* phase [6/7], lines 232-244: the dictionary as written to
\* ab_test_results.json
SaveResults ==
    /\ pc = "ab_save"
    /\ \E now \in Clock : results' = [analysis_date |-> now] @@ results
    /\ pc' = "ab_done"
    /\ UNCHANGED <<df, customer_groups, customer_regions, transactions,
                   customer_metrics, analysis_date, rfm_data, segment_summary,
                   cohortVars, error>>
    /\ UNCHANGED reportVars

\* 02, phase [7/7], lines 363-373: the recommendation the summary prints
Recommendation(res) ==
    IF res.significant_revenue /\ FLess(Num(0), res.revenue_uplift_pct)
                               /\ FLess(Num(0), res.roi)
    THEN "IMPLEMENT"
    ELSE IF FLess(Num(0), res.revenue_uplift_pct) /\ ~res.significant_revenue
    THEN "CONTINUE TESTING"
    ELSE "DO NOT IMPLEMENT"

\* 05, lines 28-29 and 123-131: the section 'ab_testing' of the consolidated
\* record, from the dictionary read back from ab_test_results.json
ABTestingSection(ab_results) ==
    [revenue_uplift_pct         |-> ab_results.revenue_uplift_pct,
     order_frequency_uplift_pct |-> ab_results.order_frequency_uplift_pct,
     repeat_rate_uplift_pct     |-> ab_results.repeat_rate_uplift_pct,
     roi_pct                    |-> ab_results.roi,
     statistically_significant  |-> ab_results.significant_revenue,
     p_value                    |-> ab_results.p_value_revenue,
     recommendation             |->
         IF FLess(ab_results.revenue_uplift_pct, Num(0))
         THEN "Do not implement" ELSE "Continue testing"]

\* 05, phase [3/5]
ConsolidateABTesting ==
    /\ pc = "ab_done"
    /\ comprehensive_metrics' = [ab_testing |-> ABTestingSection(results)]
    /\ pc' = "consolidated"
    /\ UNCHANGED <<df, customer_groups, customer_regions, transactions,
                   customer_metrics, analysis_date, rfm_data, segment_summary,
                   results, cohort_transactions, cohort_data, retention_matrix,
                   cohort_metrics, error, reportVars>>

\* the rows of a table written by 01 for the assignment g of the customers
AbRows(g) ==
    {WithDiscount([CustomerID |-> c, InvoiceNo |-> k,
                   TestGroup |-> g[c], Revenue |-> 20 * BasketValue(c)], rate) :
        c \in DOMAIN g, k \in DfInvoices, rate \in DiscountRates \cup {0}}

InitAB ==
    /\ pc = "ab_load"
    /\ \E g \in [1..MaxAbCust -> TestGroups] :
         transactions \in
             SubsetsUpTo({t \in AbRows(g) :
                            (t.DiscountRate = 0) <=> (t.TestGroup = "Control")},
                         MaxAbTx) \ {{}}
    /\ df = {}
    /\ customer_groups = <<>>
    /\ customer_regions = <<>>
    /\ customer_metrics = {}
    /\ analysis_date = 0
    /\ rfm_data = <<>>
    /\ segment_summary = <<>>
    /\ results = <<>>
    /\ cohort_transactions = {}
    /\ cohort_data = {}
    /\ retention_matrix = <<>>
    /\ cohort_metrics = <<>>
    /\ comprehensive_metrics = <<>>
    /\ error = "none"
    /\ NoReport

NextAB ==
    AggregateCustomerMetrics \/ CalculateABMetrics \/ StatisticalTests
        \/ AnalyzeBehavior \/ SaveResults \/ ConsolidateABTesting

\* 02 over a table written by 01
SpecAB == InitAB /\ [][NextAB]_vars

----------------------------------------------------------------------------
(* 04, phases [4/7]-[7/7]: lines 150-235.                                  *)

\* lines 156-163; AvgTransactionValue is AVG(Revenue) of the customer's rows
WithCLV(row) ==
    [Historical_CLV |-> row.Monetary,
     Predicted_CLV  |->
         FMul(FMul(FMul(FDiv(Num(row.Monetary), Num(row.TotalTransactions)),
                        Num(row.Frequency)),
                   FDiv(Num(row.R_Score), Num(5))),
              Num(2))] @@ row

CalculateCLV ==
    /\ pc = "summarized"
    /\ rfm_data' = [i \in DOMAIN rfm_data |-> WithCLV(rfm_data[i])]
    /\ pc' = "concentration"
    /\ UNCHANGED <<df, customer_groups, customer_regions, transactions,
                   customer_metrics, analysis_date, segment_summary, results,
                   cohortVars, error, reportVars>>

\* a sequence without its i-th element
Without(vals, i) == [j \in 1..(Len(vals) - 1) |-> IF j < i THEN vals[j] ELSE vals[j + 1]]

\* the values in ascending order
RECURSIVE AscendingValues(_)
AscendingValues(vals) ==
    IF vals = <<>> THEN <<>>
    ELSE LET i == CHOOSE k \in DOMAIN vals : \A j \in DOMAIN vals : vals[k] <= vals[j]
         IN  <<vals[i]>> \o AscendingValues(Without(vals, i))

\* line 179: the column Monetary of sort_values('Monetary', ascending=False)
RECURSIVE DescendingValues(_)
DescendingValues(vals) ==
    IF vals = <<>> THEN <<>>
    ELSE LET i == CHOOSE k \in DOMAIN vals : \A j \in DOMAIN vals : vals[k] >= vals[j]
         IN  <<vals[i]>> \o DescendingValues(Without(vals, i))

\* the sum of a sequence of integers
RECURSIVE SumValues(_)
SumValues(vals) == IF vals = <<>> THEN 0 ELSE Head(vals) + SumValues(Tail(vals))

\* lines 186 and 190: int(len(rfm_sorted) * 0.2) and int(len(rfm_sorted) * 0.1)
\* for pct = 20 and 10; the float product truncates to the integer quotient
top_pct_customers(frame, pct) == (Len(frame) * pct) \div 100

top_pct_revenue_percent_MutAscending(frame, pct) ==
    LET rfm_sorted == AscendingValues(Column(frame, "Monetary"))
        top        == SubSeq(rfm_sorted, 1, top_pct_customers(frame, pct))
    IN  FMul(FDiv(Num(SumValues(top)), Num(SumValues(rfm_sorted))), Num(100))

\* lines 187-188 and 191-192: .iloc[:k]['Monetary'].sum() over the total, x 100
top_pct_revenue_percent(frame, pct) ==
    LET rfm_sorted == DescendingValues(Column(frame, "Monetary"))
        top        == SubSeq(rfm_sorted, 1, top_pct_customers(frame, pct))
    IN  FMul(FDiv(Num(SumValues(top)), Num(SumValues(rfm_sorted))), Num(100))

\* phase [5/7], lines 176-192; metrics holds the values until they are saved
AnalyzeConcentration ==
    /\ pc = "concentration"
    /\ metrics' = [top_20_pct_revenue_percent |-> top_pct_revenue_percent(rfm_data, 20),
                   top_10_pct_revenue_percent |-> top_pct_revenue_percent(rfm_data, 10)]
    /\ pc' = "churn"
    /\ UNCHANGED <<df, customer_groups, customer_regions, transactions,
                   customer_metrics, analysis_date, rfm_data, segment_summary,
                   results, cohortVars, error>>
    /\ UNCHANGED <<customers, files, task, observed, previous>>

\* line 202: rfm_data[rfm_data['R_Score'] <= 2]
high_churn_risk(frame) == SelectSeq(frame, LAMBDA row : row.R_Score <= 2)

\* lines 220-232
RfmMetrics(frame, summary, date, concentration) ==
    LET monetary == Column(frame, "Monetary")
        clv      == [i \in DOMAIN frame |-> Num(frame[i].Historical_CLV)]
        at_risk  == high_churn_risk(frame)
        churn_risk_revenue == SumValues(Column(at_risk, "Monetary"))
    IN  [analysis_date   |-> date,
         total_customers |-> Len(frame),
         total_revenue   |-> Num(SumValues(monetary)),
         avg_clv         |-> Mean(clv),
         median_clv      |-> Median(clv),
         top_10_pct_revenue_concentration |-> concentration.top_10_pct_revenue_percent,
         top_20_pct_revenue_concentration |-> concentration.top_20_pct_revenue_percent,
         churn_risk_customers   |-> Len(at_risk),
         churn_risk_pct         |-> FMul(FDiv(Num(Len(at_risk)), Num(Len(frame))), Num(100)),
         churn_risk_revenue     |-> Num(churn_risk_revenue),
         churn_risk_revenue_pct |->
             FMul(FDiv(Num(churn_risk_revenue), Num(SumValues(monetary))), Num(100)),
         segments |-> summary]

\* phases [6/7] and [7/7], lines 198-235
SaveRFMMetrics ==
    /\ pc = "churn"
    /\ metrics' = RfmMetrics(rfm_data, segment_summary, analysis_date, metrics)
    /\ pc' = "rfm_done"
    /\ UNCHANGED <<df, customer_groups, customer_regions, transactions,
                   customer_metrics, analysis_date, rfm_data, segment_summary,
                   results, cohortVars, error>>
    /\ UNCHANGED <<customers, files, task, observed, previous>>

\* next((s[column] for s in segments if s['Segment'] == name), default)
NextOf(segments, name, column, default) ==
    IF \E i \in DOMAIN segments : segments[i].Segment = name
    THEN LET first == CHOOSE i \in DOMAIN segments :
                          /\ segments[i].Segment = name
                          /\ \A j \in 1..(i - 1) : segments[j].Segment # name
         IN  segments[first][column]
    ELSE default

\* 05, lines 34-35 and 146-153: the section 'segmentation' of the
\* consolidated record, from the dictionary read back from rfm_metrics.json
SegmentationSection(rfm_results) ==
    [total_segments          |-> Len(rfm_results.segments),
     top_segment             |-> rfm_results.segments[1].Segment,
     top_segment_revenue_pct |-> rfm_results.segments[1].RevenuePercent,
     champions_pct           |->
         NextOf(rfm_results.segments, "Champions", "CustomerPercent", Num(0)),
     at_risk_pct             |-> rfm_results.churn_risk_pct]

\* 05, phase [3/5]
ConsolidateSegmentation ==
    /\ pc = "rfm_done"
    /\ comprehensive_metrics' = [segmentation |-> SegmentationSection(metrics)]
    /\ pc' = "consolidated"
    /\ UNCHANGED <<df, customer_groups, customer_regions, transactions,
                   customer_metrics, analysis_date, rfm_data, segment_summary,
                   results, cohort_transactions, cohort_data, retention_matrix,
                   cohort_metrics, error, reportVars>>

NextRFM ==
    \/ LoadRFM
    \/ ScoreRFM
    \/ SegmentCustomers
    \/ SummarizeSegments
    \/ CalculateCLV
    \/ AnalyzeConcentration
    \/ SaveRFMMetrics
    \/ ConsolidateSegmentation

\* 04 over a table written by 01
SpecRFM == InitRFMOver(Revenues) /\ [][NextRFM]_vars

\* 04 over a table that did not pass the cleaning of 01
SpecRFMRaw == InitRFMOver(RawRevenues) /\ [][NextRFM]_vars

\* largest number of customers of a table drawn for the Pareto analysis
MaxPareto == 10

\* Monetary of a customer of the drawn table: sums of cleaned revenue
MonetaryValues == {1, 2, 5}

\* phase [5/7] over customer tables of which it reads Monetary
InitPareto ==
    /\ pc = "concentration"
    /\ \E n \in 1..MaxPareto :
         rfm_data \in {[i \in 1..n |-> [CustomerID |-> i, Monetary |-> monetary[i]]] :
                          monetary \in [1..n -> MonetaryValues]}
    /\ transactions = {}
    /\ df = {}
    /\ customer_groups = <<>>
    /\ customer_regions = <<>>
    /\ customer_metrics = {}
    /\ analysis_date = 0
    /\ segment_summary = <<>>
    /\ results = <<>>
    /\ cohort_transactions = {}
    /\ cohort_data = {}
    /\ retention_matrix = <<>>
    /\ cohort_metrics = <<>>
    /\ comprehensive_metrics = <<>>
    /\ error = "none"
    /\ NoReport

SpecPareto == InitPareto /\ [][AnalyzeConcentration]_vars

----------------------------------------------------------------------------
(* 04, 02 and 05 run one after the other over one database written by 01.  *)
(* 05 is modelled section by section: Consolidate builds the sections      *)
(* whose inputs are the A/B results, the RFM metrics and the two tables;   *)
(* the section 'retention' is the one of ConsolidateRetention.             *)

\* the calendar day of a timestamp: the ticks of day 0 fall on 2024-12-31,
\* those of day d on d January 2025
DateOfTick(t) ==
    LET d == t \div TicksPerDay
    IN  IF d = 0 THEN [year |-> 2024, month |-> 12, day |-> 31]
        ELSE [year |-> 2025, month |-> 1, day |-> d]

\* 02, line 23: the A/B analysis is started when the segmentation is done
StartABTest ==
    /\ pc = "rfm_done"
    /\ pc' = "ab_load"
    /\ UNCHANGED <<df, customer_groups, customer_regions, transactions,
                   customer_metrics, analysis_date, rfm_data, segment_summary,
                   results, cohortVars, error, reportVars>>

\* 05, lines 45-56: one row per YearMonth of the table transactions, in
\* ascending order
revenue_by_month(tx) ==
    LET months == SortedMonths({t.YearMonth : t \in tx})
    IN  [i \in DOMAIN months |->
            LET rows == {t \in tx : t.YearMonth = months[i]}
            IN  [YearMonth           |-> months[i],
                 ActiveCustomers     |-> Cardinality({t.CustomerID : t \in rows}),
                 TotalOrders         |-> Cardinality({t.InvoiceNo : t \in rows}),
                 TotalRevenue        |-> SumOver(rows, "Revenue"),
                 AvgTransactionValue |->
                     FDiv(Num(SumOver(rows, "Revenue")), Num(Cardinality(rows)))]]

\* 05, lines 87-95: one row per month of first purchase of the table
\* customers, in ascending order
customer_acquisition(cust) ==
    LET month(c) == StrfYearMonth(DateOfTick(c.FirstPurchaseDate))
        months   == SortedMonths({month(c) : c \in cust})
    IN  [i \in DOMAIN months |->
            LET rows == {c \in cust : month(c) = months[i]}
            IN  [Month        |-> months[i],
                 NewCustomers |-> Cardinality(rows),
                 Revenue      |-> SumOver(rows, "TotalRevenue")]]

\* 05, lines 114-120, without total_products (the rows carry no StockCode)
OverviewSection(ab_results, rfm_results, by_month) ==
    [total_revenue   |-> FAdd(ab_results.control_revenue, ab_results.treatment_revenue),
     total_customers |-> rfm_results.total_customers,
     total_orders    |-> SumValues(Column(by_month, "TotalOrders")),
     avg_order_value |-> Mean(Column(by_month, "AvgTransactionValue"))]

\* 05, lines 180-184
GrowthSection(by_month, acquisition) ==
    [monthly_revenue_trend |->
         [i \in DOMAIN by_month |->
             [YearMonth    |-> by_month[i].YearMonth,
              TotalRevenue |-> by_month[i].TotalRevenue]],
     customer_acquisition_trend |->
         [i \in DOMAIN acquisition |->
             [Month        |-> acquisition[i].Month,
              NewCustomers |-> acquisition[i].NewCustomers]],
     total_new_customers |-> SumValues(Column(acquisition, "NewCustomers"))]

\* 05, phases [1/5]-[3/5], lines 28-184
Consolidate ==
    /\ pc = "ab_done"
    /\ \E now \in Clock :
         comprehensive_metrics' =
             [report_generated |-> now,
              overview     |-> OverviewSection(results, metrics,
                                               revenue_by_month(transactions)),
              ab_testing   |-> ABTestingSection(results),
              segmentation |-> SegmentationSection(metrics),
              growth       |-> GrowthSection(revenue_by_month(transactions),
                                             customer_acquisition(customers))]
    /\ pc' = "consolidated"
    /\ UNCHANGED <<df, customer_groups, customer_regions, transactions,
                   customer_metrics, analysis_date, rfm_data, segment_summary,
                   results, cohort_transactions, cohort_data, retention_matrix,
                   cohort_metrics, error, reportVars>>

\* largest number of customers of a database drawn for the report
MaxReportCust == 2

\* the rows 01 can have written for the assignment g of the customers
ReportRows(g) ==
    {WithDiscount([CustomerID  |-> c,
                   InvoiceNo   |-> k,
                   InvoiceDate |-> InvoiceTime(k),
                   YearMonth   |-> StrfYearMonth(DateOfTick(InvoiceTime(k))),
                   Country     |-> country,
                   TestGroup   |-> g[c],
                   Revenue     |-> 20 * BasketValue(c)], rate) :
        c \in DOMAIN g, k \in 1..MaxInvoice, country \in Countries,
        rate \in DiscountRates \cup {0}}

\* the tables of at most MaxTx of the rows, an invoice on one row, a
\* discount on the rows of the Treatment group
ReportTables(g) ==
    {tx \in SubsetsUpTo({t \in ReportRows(g) :
                           (t.DiscountRate = 0) <=> (t.TestGroup = "Control")},
                        MaxTx) \ {{}} :
        \A s, t \in tx : s.InvoiceNo = t.InvoiceNo => s = t}

InitReport ==
    /\ pc = "load"
    /\ \E g \in [1..MaxReportCust -> TestGroups] : transactions \in ReportTables(g)
    /\ customers = CustomersTable(transactions)
    /\ df = {}
    /\ customer_groups = <<>>
    /\ customer_regions = <<>>
    /\ customer_metrics = {}
    /\ analysis_date = 0
    /\ rfm_data = <<>>
    /\ segment_summary = <<>>
    /\ results = <<>>
    /\ cohort_transactions = {}
    /\ cohort_data = {}
    /\ retention_matrix = <<>>
    /\ cohort_metrics = <<>>
    /\ comprehensive_metrics = <<>>
    /\ error = "none"
    /\ metrics = <<>>
    /\ files = <<>>
    /\ task = <<>>
    /\ observed = <<>>
    /\ previous = <<>>

NextReport ==
    \/ LoadRFM
    \/ ScoreRFM
    \/ SegmentCustomers
    \/ SummarizeSegments
    \/ CalculateCLV
    \/ AnalyzeConcentration
    \/ SaveRFMMetrics
    \/ StartABTest
    \/ AggregateCustomerMetrics
    \/ CalculateABMetrics
    \/ StatisticalTests
    \/ AnalyzeBehavior
    \/ SaveResults
    \/ Consolidate

\* 04, then 02, then 05 over a database written by 01
SpecReport == InitReport /\ [][NextReport]_vars

----------------------------------------------------------------------------
(* The scripts run as tasks that share the directory ../outputs.  An       *)
(* engine computes, opens its output file for writing, which truncates it, *)
(* and closes it when json.dump has returned; 05 opens the three files one *)
(* after the other when it starts and does not wait for any task.          *)

Engines == {"ab", "cohort", "rfm"}

\* 02 line 243, 03 line 167, 04 line 234, 05 line 202
OutputOf ==
    [ab         |-> "ab_test_results.json",
     cohort     |-> "cohort_metrics.json",
     rfm        |-> "rfm_metrics.json",
     aggregator |-> "comprehensive_metrics.json"]

EngineOutputs == {OutputOf[e] : e \in Engines}

\* 05, lines 28-35, in the order of the with statements
LoadOrder == <<"ab_test_results.json", "cohort_metrics.json", "rfm_metrics.json">>

\* the other variables of the model, which the tasks leave alone
scriptVars == <<pc, df, customer_groups, customer_regions, transactions,
                customer_metrics, analysis_date, rfm_data, segment_summary,
                results, cohortVars, metrics, customers, previous>>

StartEngine(e) ==
    /\ task[e] = "idle"
    /\ task' = [task EXCEPT ![e] = "running"]
    /\ UNCHANGED <<scriptVars, files, observed, error>>

\* an engine that raises before it saves (the KeyError of 03, the
\* ValueError of 02 and 04) leaves its output file as it was
CrashEngine(e) ==
    /\ task[e] = "running"
    /\ task' = [task EXCEPT ![e] = "crashed"]
    /\ UNCHANGED <<scriptVars, files, observed, error>>

\* open(..., 'w') truncates the file; until json.dump has returned and the
\* file is closed it holds a proper prefix of the document
OpenOutput(e) ==
    /\ task[e] = "running"
    /\ task' = [task EXCEPT ![e] = "writing"]
    /\ files' = [files EXCEPT ![OutputOf[e]] = "partial"]
    /\ UNCHANGED <<scriptVars, observed, error>>

CloseOutput(e) ==
    /\ task[e] = "writing"
    /\ task' = [task EXCEPT ![e] = "done"]
    /\ files' = [files EXCEPT ![OutputOf[e]] = "complete"]
    /\ UNCHANGED <<scriptVars, observed, error>>

StartAggregator ==
    /\ task.aggregator = "idle"
    /\ task' = [task EXCEPT !.aggregator = "loading"]
    /\ UNCHANGED <<scriptVars, files, observed, error>>

LoadOutcome_MutEmptyDefault(state) == "loaded"

\* with open(name, 'r') as f: json.load(f).  A file that is not there
\* raises FileNotFoundError; a proper prefix of a JSON object, the empty
\* prefix included, raises json.JSONDecodeError
LoadOutcome(state) ==
    IF state = "complete" THEN "loaded"
    ELSE IF state = "absent" THEN "FileNotFoundError"
    ELSE "JSONDecodeError"

\* 05, lines 28-35: the next of the three json.load calls
LoadResult ==
    /\ task.aggregator = "loading"
    /\ LET name    == LoadOrder[Len(observed) + 1]
           outcome == LoadOutcome(files[name])
       IN  /\ observed' = Append(observed, [file |-> name, state |-> files[name]])
           /\ IF outcome = "loaded"
              THEN /\ task' = [task EXCEPT !.aggregator =
                                  IF Len(observed') = Len(LoadOrder)
                                  THEN "consolidating" ELSE "loading"]
                   /\ UNCHANGED error
              ELSE /\ task' = [task EXCEPT !.aggregator = "crashed"]
                   /\ error' = outcome
    /\ UNCHANGED <<scriptVars, files>>

\* 05, lines 202-203
OpenConsolidated ==
    /\ task.aggregator = "consolidating"
    /\ task' = [task EXCEPT !.aggregator = "writing"]
    /\ files' = [files EXCEPT ![OutputOf.aggregator] = "partial"]
    /\ UNCHANGED <<scriptVars, observed, error>>

CloseConsolidated ==
    /\ task.aggregator = "writing"
    /\ task' = [task EXCEPT !.aggregator = "done"]
    /\ files' = [files EXCEPT ![OutputOf.aggregator] = "complete"]
    /\ UNCHANGED <<scriptVars, observed, error>>

\* the directory holds, of each file, nothing or what an earlier run wrote
InitJoin ==
    /\ pc = "tasks"
    /\ task = [t \in Engines \cup {"aggregator"} |-> "idle"]
    /\ files \in [EngineOutputs \cup {OutputOf.aggregator} -> {"absent", "complete"}]
    /\ observed = <<>>
    /\ error = "none"
    /\ transactions = {}
    /\ df = {}
    /\ customer_groups = <<>>
    /\ customer_regions = <<>>
    /\ customer_metrics = {}
    /\ analysis_date = 0
    /\ rfm_data = <<>>
    /\ segment_summary = <<>>
    /\ results = <<>>
    /\ cohort_transactions = {}
    /\ cohort_data = {}
    /\ retention_matrix = <<>>
    /\ cohort_metrics = <<>>
    /\ comprehensive_metrics = <<>>
    /\ metrics = <<>>
    /\ customers = {}
    /\ previous = <<>>

NextJoin ==
    \/ \E e \in Engines : StartEngine(e)
    \/ \E e \in Engines : CrashEngine(e)
    \/ \E e \in Engines : OpenOutput(e)
    \/ \E e \in Engines : CloseOutput(e)
    \/ StartAggregator
    \/ LoadResult
    \/ OpenConsolidated
    \/ CloseConsolidated

\* the three engines and 05 as tasks, in every interleaving
SpecJoin == InitJoin /\ [][NextJoin]_vars

----------------------------------------------------------------------------
(* The decision table of segment_customer as an ordered rule list.         *)

SegmentLabels ==
    {"Champions", "Loyal Customers", "Potential Loyalist", "New Customers",
     "Promising", "Need Attention", "About To Sleep", "At Risk",
     "Cannot Lose Them", "Hibernating", "Lost"}

RuleLabel ==
    <<"Champions", "Loyal Customers", "Potential Loyalist", "New Customers",
      "Promising", "Need Attention", "About To Sleep", "At Risk",
      "Cannot Lose Them", "Hibernating">>

\* the threshold predicate of the k-th rule
RuleHolds(k, r, f, m) ==
    CASE k = 1  -> r >= 4 /\ f >= 4 /\ m >= 4
      [] k = 2  -> r >= 3 /\ f >= 4 /\ m >= 3
      [] k = 3  -> r >= 4 /\ f >= 2 /\ m >= 2
      [] k = 4  -> r >= 4 /\ f = 1
      [] k = 5  -> r >= 3 /\ f >= 2 /\ m >= 2
      [] k = 6  -> r >= 3 /\ f >= 3 /\ m >= 3
      [] k = 7  -> r >= 2 /\ r <= 3
      [] k = 8  -> r <= 2 /\ f >= 3 /\ m >= 3
      [] k = 9  -> r <= 2 /\ f >= 4 /\ m >= 4
      [] k = 10 -> r <= 2 /\ f <= 2

\* the label of the first rule that holds, "Lost" when none does
FirstRuleLabel(r, f, m) ==
    LET hit == {k \in DOMAIN RuleLabel : RuleHolds(k, r, f, m)}
    IN  IF hit = {} THEN "Lost"
        ELSE RuleLabel[CHOOSE k \in hit : \A j \in hit : k <= j]

Scored == pc \in {"segment", "segmented"}

\* C1: every score triple in 1..5 gets exactly one of the eleven labels, the
\* label of the first rule of the ordered table whose predicate holds and
\* "Lost" when none holds; the label is a function of (R, F, M) alone.
C1_SegmentIsFirstMatchingRule ==
    pc = "segmented" =>
        \A i \in DOMAIN rfm_data :
            /\ rfm_data[i].Segment \in SegmentLabels
            /\ rfm_data[i].Segment =
                   FirstRuleLabel(rfm_data[i].R_Score, rfm_data[i].F_Score,
                                  rfm_data[i].M_Score)
            /\ \A j \in DOMAIN rfm_data :
                   ( /\ rfm_data[i].R_Score = rfm_data[j].R_Score
                     /\ rfm_data[i].F_Score = rfm_data[j].F_Score
                     /\ rfm_data[i].M_Score = rfm_data[j].M_Score )
                   => rfm_data[i].Segment = rfm_data[j].Segment

\* a triple on which rules 2 and 3 both hold is labelled by rule 2
C1_Witness ==
    /\ pc = "segmented"
    /\ \E i \in DOMAIN rfm_data :
        /\ rfm_data[i].R_Score = 4
        /\ rfm_data[i].F_Score = 4
        /\ rfm_data[i].M_Score = 3
        /\ rfm_data[i].Segment = "Loyal Customers"

----------------------------------------------------------------------------
(* Claims about the scoring phase.                                         *)

\* one of the three scored columns yields fewer than QCUT_Q + 1 distinct
\* quantile boundaries
FewerThanFiveBuckets(frame) ==
    \/ Cardinality(UniqueBins(RScoreInput(frame))) < QCUT_Q + 1
    \/ Cardinality(UniqueBins(FScoreInput(frame))) < QCUT_Q + 1
    \/ Cardinality(UniqueBins(MScoreInput(frame))) < QCUT_Q + 1

HasScores(row) == {"R_Score", "F_Score", "M_Score"} \subseteq DOMAIN row

\* C4: when a metric has too few distinct values for five distinct quantile
\* boundaries, scoring uses fewer buckets, every customer still gets a
\* score, and the run does not fail.
C4_DegenerateBinningStillScores ==
    (pc \in {"segment", "segmented", "failed"} /\ FewerThanFiveBuckets(rfm_data))
        => /\ error = "none"
           /\ \A i \in DOMAIN rfm_data : HasScores(rfm_data[i])

BucketSize(frame, col, s) ==
    Cardinality({i \in DOMAIN frame : frame[i][col] = s})

EqualSized(frame, col) ==
    \A s \in Scores : \A t \in Scores :
        BucketSize(frame, col, s) - BucketSize(frame, col, t) <= 1

\* C6: for Recency as for Frequency and Monetary, the numbers of customers
\* that receive score 1, 2, 3, 4 and 5 differ pairwise by at most one.
C6_BucketsEqualSized ==
    Scored => /\ EqualSized(rfm_data, "R_Score")
              /\ EqualSized(rfm_data, "F_Score")
              /\ EqualSized(rfm_data, "M_Score")

\* C7: within one run a smaller Recency never scores lower, and a smaller
\* Frequency or Monetary never scores higher.
C7_ScoresRespectDirection ==
    Scored =>
        \A a \in DOMAIN rfm_data : \A b \in DOMAIN rfm_data :
            /\ rfm_data[a].Recency < rfm_data[b].Recency
                   => rfm_data[a].R_Score >= rfm_data[b].R_Score
            /\ rfm_data[a].Frequency < rfm_data[b].Frequency
                   => rfm_data[a].F_Score <= rfm_data[b].F_Score
            /\ rfm_data[a].Monetary < rfm_data[b].Monetary
                   => rfm_data[a].M_Score <= rfm_data[b].M_Score

\* two scored customers that differ strictly in every metric and every score,
\* and whose Frequency and Monetary order disagree
C7_Witness ==
    /\ pc = "segment"
    /\ \E a \in DOMAIN rfm_data : \E b \in DOMAIN rfm_data :
        /\ rfm_data[a].Recency < rfm_data[b].Recency
        /\ rfm_data[a].R_Score > rfm_data[b].R_Score
        /\ rfm_data[a].Frequency < rfm_data[b].Frequency
        /\ rfm_data[a].F_Score < rfm_data[b].F_Score
        /\ rfm_data[b].Monetary < rfm_data[a].Monetary
        /\ rfm_data[b].M_Score < rfm_data[a].M_Score

\* C8: after scoring, R_Score, F_Score and M_Score of every customer are
\* integers in 1..5 and RFM_Score is their digits in the order R, F, M, a
\* string of length 3.
C8_ScoresInRangeAndConcatenated ==
    Scored =>
        \A i \in DOMAIN rfm_data :
            /\ rfm_data[i].R_Score \in Scores
            /\ rfm_data[i].F_Score \in Scores
            /\ rfm_data[i].M_Score \in Scores
            /\ Len(rfm_data[i].RFM_Score) = 3
            /\ rfm_data[i].RFM_Score =
                   Digits[rfm_data[i].R_Score + 1]
                   \o Digits[rfm_data[i].F_Score + 1]
                   \o Digits[rfm_data[i].M_Score + 1]

\* a scored customer whose three scores are pairwise different
C8_Witness ==
    /\ pc = "segment"
    /\ \E i \in DOMAIN rfm_data :
        /\ rfm_data[i].R_Score = 5
        /\ rfm_data[i].F_Score = 1
        /\ rfm_data[i].M_Score = 3
        /\ rfm_data[i].RFM_Score = "513"

----------------------------------------------------------------------------
(* Claims about the RFM engine over a transaction table.                   *)

RowPermutations(n) == {p \in [1..n -> 1..n] : \A i, j \in 1..n : p[i] = p[j] => i = j}

SameScores(a, b) ==
    /\ a.R_Score = b.R_Score
    /\ a.F_Score = b.F_Score
    /\ a.M_Score = b.M_Score

\* C5: the R, F and M score of a customer does not depend on the order in
\* which the store returns the customer rows: every permutation of the same
\* rows is scored the same, customer by customer.
C5_ScoresIndependentOfRowOrder ==
    pc = "segment" =>
        \A p \in RowPermutations(Len(rfm_data)) :
            LET permuted == [i \in DOMAIN rfm_data |-> rfm_data[p[i]]]
            IN  /\ ~ScoringRaises(permuted)
                /\ \A i \in DOMAIN rfm_data :
                       SameScores(ScoredFrame(permuted)[i], rfm_data[p[i]])

\* C9: no customer whose Monetary or Frequency is non-positive is scored and
\* segmented; a table with such a customer produces no CustomerRFM output.
C9_NonPositiveNeverSegmented ==
    pc = "segmented" =>
        \A i \in DOMAIN rfm_data :
            rfm_data[i].Monetary > 0 /\ rfm_data[i].Frequency > 0

Loaded == pc \in {"score", "segment", "segmented", "failed"}

\* C10: the analysis date of a run is the latest invoice date of the whole
\* table plus one day, and the Recency of every customer is the number of
\* whole days from that customer's own latest invoice date to this one date.
C10_RecencyFromRunWideAnalysisDate ==
    Loaded =>
        LET latest == Max({t.InvoiceDate : t \in transactions})
        IN  /\ analysis_date = latest + TicksPerDay
            /\ \A i \in DOMAIN rfm_data :
                 LET own == Max({t.InvoiceDate :
                                   t \in RowsOf(transactions, rfm_data[i].CustomerID)})
                 IN  /\ rfm_data[i].Recency * TicksPerDay <= analysis_date - own
                     /\ analysis_date - own < (rfm_data[i].Recency + 1) * TicksPerDay
                     /\ rfm_data[i].Recency >= 1

\* the customer of the latest invoice has Recency 1 while another customer,
\* whose own latest invoice is older, has a larger Recency
C10_Witness ==
    /\ pc = "score"
    /\ \E a \in DOMAIN rfm_data : \E b \in DOMAIN rfm_data :
        /\ rfm_data[a].LastPurchaseDate + TicksPerDay = analysis_date
        /\ rfm_data[a].Recency = 1
        /\ rfm_data[b].LastPurchaseDate < rfm_data[a].LastPurchaseDate
        /\ rfm_data[b].Recency = 2

----------------------------------------------------------------------------
(* Claims about data preparation and the A/B samples.                      *)

\* C2: the A/B samples hold customer-level aggregates: every distinct
\* customer of the transaction table is one observation of exactly one of
\* the Control and Treatment samples, so the sample sizes sum to the number
\* of distinct customers.
C2_SamplesAreCustomerLevel ==
    pc = "ab_metrics" =>
        /\ Cardinality(control_customers) + Cardinality(treatment_customers)
               = Cardinality(CustomersOf(transactions))
        /\ \A c \in CustomersOf(transactions) :
               Cardinality({m \in control_customers \cup treatment_customers :
                              m.CustomerID = c}) = 1

\* a customer with two invoices is one observation, beside a customer of the
\* other group
C2_Witness ==
    /\ pc = "ab_metrics"
    /\ \E m \in control_customers : m.TotalOrders = 2 /\ m.TotalTransactions = 2
    /\ treatment_customers # {}

\* C3: in the transaction table every customer has exactly one TestGroup and
\* exactly one Region, the same on all transactions of the customer, also
\* for a customer with transactions in more than one country.
C3_OneGroupAndRegionPerCustomer ==
    pc \in {"ab_load", "ab_metrics"} =>
        \A c \in CustomersOf(transactions) :
            /\ Cardinality({t.TestGroup : t \in RowsOf(transactions, c)}) = 1
            /\ Cardinality({t.Region : t \in RowsOf(transactions, c)}) = 1

----------------------------------------------------------------------------
(* Claims about the segment summary.                                       *)

\* C11: the per-segment customer counts add up to the number of customers,
\* the per-segment revenues add up to the sum of Monetary over all
\* customers, and every customer falls in exactly one row of the summary.
C11_SummaryPartitionsCustomers ==
    pc = "summarized" =>
        /\ SumColumn(segment_summary, "Customers", DOMAIN segment_summary)
             = Len(rfm_data)
        /\ SumColumn(segment_summary, "TotalRevenue", DOMAIN segment_summary)
             = SumColumn(rfm_data, "Monetary", DOMAIN rfm_data)
        /\ \A i \in DOMAIN rfm_data :
             Cardinality({k \in DOMAIN segment_summary :
                            segment_summary[k].Segment = rfm_data[i].Segment}) = 1

\* a summary of several segments, one of them with two customers who spent
\* the same amount
C11_Witness ==
    /\ pc = "summarized"
    /\ Len(segment_summary) >= 2
    /\ \E i, j \in DOMAIN rfm_data :
         /\ i # j
         /\ rfm_data[i].Segment = rfm_data[j].Segment
         /\ rfm_data[i].Monetary = rfm_data[j].Monetary

----------------------------------------------------------------------------
(* Claims about the cohort engine and the retention section of 05.         *)

Assigned == pc # "cohort_load"

MatrixBuilt == pc \in {"cohort_metrics", "cohort_done", "consolidated", "failed"}

MetricsWritten == pc \in {"cohort_done", "consolidated"}

\* the customers of a cohort seen at an elapsed month
CustomersAt(cohort, k) ==
    {t.CustomerID : t \in {u \in cohort_transactions :
                             u.CohortMonth = cohort /\ u.MonthsSinceFirst = k}}

\* the cohorts with a transaction at an elapsed month
CohortsAt(k) == {t.CohortMonth : t \in {u \in cohort_transactions : u.MonthsSinceFirst = k}}

MaxElapsed == Max({t.MonthsSinceFirst : t \in cohort_transactions})

\* the retention percentage of a cohort at an elapsed month it has reached
RetentionAt(cohort, k) ==
    Frac(100 * Cardinality(CustomersAt(cohort, k)), Cardinality(CustomersAt(cohort, 0)))

RECURSIVE SumRetentionAt(_, _)
SumRetentionAt(cohorts, k) ==
    IF cohorts = {} THEN Num(0)
    ELSE LET c == CHOOSE x \in cohorts : TRUE
         IN  FAdd(RetentionAt(c, k), SumRetentionAt(cohorts \ {c}, k))

\* C12: the cell of every cohort at elapsed month 0 is exactly 100, every
\* populated cell lies between 0 and 100, and the denominator of every cell
\* is the number of distinct customers of its cohort at elapsed month 0.
C12_RetentionWithinBounds ==
    MatrixBuilt =>
        /\ \A c \in Range(retention_matrix.index) :
             retention_matrix.cell[c, 0] = Num(100)
        /\ \A c \in Range(retention_matrix.index) :
             \A k \in Range(retention_matrix.columns) :
                LET v == retention_matrix.cell[c, k]
                IN  ~IsNaN(v) =>
                        /\ IsFinite(v)
                        /\ ~FLess(v, Num(0))
                        /\ ~FLess(Num(100), v)
        /\ \A r \in cohort_data :
             /\ r.CohortSize = Num(Cardinality(CustomersAt(r.CohortMonth, 0)))
             /\ r.RetentionRate = RetentionAt(r.CohortMonth, r.MonthsSinceFirst)

\* a cohort of two customers, one of whom came back in a later month
C12_Witness ==
    /\ MatrixBuilt
    /\ \E r \in cohort_data :
         /\ r.MonthsSinceFirst > 0
         /\ r.CohortSize = Num(2)
         /\ r.RetentionRate = Num(50)

\* C13: the elapsed month of every transaction is 12 x (year difference) +
\* (month difference) between its year-month and the year-month of the
\* earliest transaction of its customer, whatever the days, and is >= 0.
C13_ElapsedIsCalendarMonthDifference ==
    Assigned =>
        \A t \in cohort_transactions :
            LET first == MinDate({u.InvoiceDate : u \in RowsOf(transactions, t.CustomerID)})
            IN  /\ t.MonthsSinceFirst =
                      12 * (t.InvoiceDate.year - first.year)
                         + (t.InvoiceDate.month - first.month)
                /\ t.MonthsSinceFirst >= 0

\* first purchase on 31 Dec 2024, a purchase on 1 Feb 2025: two months
C13_Witness ==
    /\ Assigned
    /\ \E t \in cohort_transactions :
         /\ t.CohortMonth = <<"2", "0", "2", "4", "-", "1", "2">>
         /\ t.InvoiceDate = [year |-> 2025, month |-> 2, day |-> 1]
         /\ t.MonthsSinceFirst = 2

\* C14: the columns of the retention matrix are exactly 0..max, max the
\* largest elapsed month of the snapshot, and the per-period metrics are
\* computed over them without failing.
C14_ColumnsAreEveryElapsedMonth ==
    MatrixBuilt =>
        /\ retention_matrix.columns = [j \in 1..(MaxElapsed + 1) |-> j - 1]
        /\ error # "KeyError"

\* C15: the average retention of elapsed month k is the mean over the
\* cohorts that have a transaction at month k, the other cohorts counting
\* for nothing; a month no cohort has a transaction at has no average.
C15_AverageOverPopulatedCells ==
    MetricsWritten =>
        \A k \in 0..(MaxElapsed + 1) :
            LET key == "month_" \o IntToStr(k) \o "_avg_retention"
            IN  IF CohortsAt(k) = {}
                THEN key \notin DOMAIN cohort_metrics
                ELSE /\ key \in DOMAIN cohort_metrics
                     /\ cohort_metrics[key] =
                          FDiv(SumRetentionAt(CohortsAt(k), k),
                               Num(Cardinality(CohortsAt(k))))

\* two cohorts, one with and one without a transaction at elapsed month 1
C15_Witness ==
    /\ MetricsWritten
    /\ Cardinality(CohortsAt(0)) = 2
    /\ Cardinality(CohortsAt(1)) = 1
    /\ "month_1_avg_retention" \in DOMAIN cohort_metrics

\* C16: the retention percentage of an elapsed month that no cohort has
\* reached is no data in the consolidated record, never 0.
C16_MissingRetentionIsNotZero ==
    pc = "consolidated" =>
        \A k \in 1..3 :
            ("month_" \o IntToStr(k) \o "_avg_retention") \notin DOMAIN cohort_metrics
                => comprehensive_metrics.retention[
                       "month_" \o IntToStr(k) \o "_retention_pct"] # Num(0)

\* C17: the baseline is the mean, over the cohorts with a transaction at
\* elapsed month 1, of 100 - retention at month 1, and 0 when there is no
\* such cohort; the target is 0.86 x the baseline.
C17_TargetChurnFromMonthOne ==
    MetricsWritten =>
        LET reached  == CohortsAt(1)
            baseline ==
                IF reached = {} THEN Num(0)
                ELSE FSub(Num(100),
                          FDiv(SumRetentionAt(reached, 1), Num(Cardinality(reached))))
        IN  /\ cohort_metrics["baseline_month1_churn"] = baseline
            /\ cohort_metrics["target_month1_churn"] = FMul(Frac(86, 100), baseline)

\* half of the one cohort that reached month 1 came back: 50 and 43
C17_Witness ==
    /\ MetricsWritten
    /\ cohort_metrics["baseline_month1_churn"] = Num(50)
    /\ cohort_metrics["target_month1_churn"] = Num(43)

----------------------------------------------------------------------------
(* Claims about the A/B engine.                                            *)

MetricsCalculated == pc \in {"ab_tests", "ab_behavior", "ab_save", "ab_done"}

\* the rows of the table that belong to the customers of a test group
GroupRows(group) == {t \in transactions : t.TestGroup = group}

\* x * 100 rounded to the nearest integer, for a finite x
Hundredths(x) == (200 * x.num + x.den) \div (2 * x.den)

\* C18: control_revenue is the raw revenue of the Control customers,
\* treatment_revenue the discounted revenue of the Treatment customers, and
\* revenue_uplift_pct is (treatment_revenue - control_revenue) /
\* control_revenue x 100; 1000 and 1100 give +10.00.
C18_RevenueUplift ==
    /\ RevenueUpliftPct(Num(1000), Num(1100)) = Num(10)
    /\ MetricsCalculated =>
        LET control   == SumOver(GroupRows("Control"), "Revenue")
            treatment == SumOver(GroupRows("Treatment"), "DiscountedRevenue")
        IN  /\ results.control_revenue = Num(control)
            /\ results.treatment_revenue = Num(treatment)
            /\ control > 0 =>
                 results.revenue_uplift_pct = Frac(100 * (treatment - control), control)

\* both groups have revenue, the treatment group has been discounted and
\* the uplift is not 0
C18_Witness ==
    /\ MetricsCalculated
    /\ FLess(Num(0), results.control_revenue)
    /\ FLess(Num(0), results.treatment_revenue)
    /\ FLess(Num(0), results.treatment_cost)
    /\ results.revenue_uplift_pct # Num(0)

\* C19: treatment_cost is the sum of the discount amounts; roi is
\* (treatment_revenue - control_revenue - treatment_cost) / treatment_cost x
\* 100 for a positive cost and exactly 0 for a cost of 0; control 5000,
\* treatment 4500 and cost 600 give -183.33 (and an uplift of -10.00).
C19_Roi ==
    /\ Hundredths(Roi(Num(5000), Num(4500), Num(600))) = -18333
    /\ RevenueUpliftPct(Num(5000), Num(4500)) = Num(-10)
    /\ Roi(Num(5000), Num(4500), Num(0)) = Num(0)
    /\ MetricsCalculated =>
        LET control   == SumOver(GroupRows("Control"), "Revenue")
            treatment == SumOver(GroupRows("Treatment"), "DiscountedRevenue")
            cost      == SumOver(GroupRows("Treatment"), "DiscountAmount")
        IN  /\ results.treatment_cost = Num(cost)
            /\ IsFinite(results.roi)
            /\ results.roi = IF cost > 0
                             THEN Frac(100 * (treatment - control - cost), cost)
                             ELSE Num(0)

\* a treatment group that brought in less than the control group, at a cost
C19_Witness ==
    /\ MetricsCalculated
    /\ FLess(Num(0), results.treatment_cost)
    /\ FLess(results.treatment_revenue, results.control_revenue)
    /\ FLess(results.roi, Num(-100))

\* a group of 0 or 1 customers, or a sample without variance
Degenerate ==
    \/ Cardinality(control_customers) <= 1
    \/ Cardinality(treatment_customers) <= 1
    \/ Cardinality({m.TotalRevenue : m \in control_customers}) <= 1
    \/ Cardinality({m.TotalDiscountedRevenue : m \in treatment_customers}) <= 1

\* C20: with a group of 0 or 1 customers, or a sample without variance, the
\* analysis does not crash and a test without a result is not reported as
\* 'not significant'.
C20_DegenerateIsIndeterminate ==
    (pc \in {"ab_behavior", "ab_save", "ab_done", "failed"} /\ Degenerate) =>
        /\ error = "none"
        /\ ~(results.p_value_revenue = "nan" /\ results.significant_revenue = FALSE)

----------------------------------------------------------------------------
(* Claims about the decision table and the ties of the scoring.            *)

\* the label is the segment of some triple
AssignedSomewhere(label) ==
    \E r \in Scores, f \in Scores, m \in Scores :
        segment_customer([R_Score |-> r, F_Score |-> f, M_Score |-> m]) = label

\* C26: each of the eleven labels is the segment of at least one score
\* triple of 1..5 x 1..5 x 1..5: a rule whose thresholds the customer meets
\* is the first rule to hold for some triple.
C26_EveryLabelAssigned ==
    pc = "segmented" =>
        /\ AssignedSomewhere("Lost")
        /\ \A k \in DOMAIN RuleLabel :
             RuleHolds(k, rfm_data[1].R_Score, rfm_data[1].F_Score, rfm_data[1].M_Score)
                 => AssignedSomewhere(RuleLabel[k])

\* C27: two customers with the same Recency have the same R_Score, with the
\* same Frequency the same F_Score and with the same Monetary the same
\* M_Score.
C27_EqualValueEqualScore ==
    pc \in {"segment", "segmented", "summarized"} =>
        \A i, j \in DOMAIN rfm_data :
            /\ rfm_data[i].Recency = rfm_data[j].Recency
                 => rfm_data[i].R_Score = rfm_data[j].R_Score
            /\ rfm_data[i].Frequency = rfm_data[j].Frequency
                 => rfm_data[i].F_Score = rfm_data[j].F_Score
            /\ rfm_data[i].Monetary = rfm_data[j].Monetary
                 => rfm_data[i].M_Score = rfm_data[j].M_Score

----------------------------------------------------------------------------
(* Claims about the effect sizes.                                          *)

\* the variance that cohens_d pools from the two samples
PooledVariance(group1, group2) ==
    FDiv(FAdd(FMul(Num(Len(group1) - 1), Var(group1)),
              FMul(Num(Len(group2) - 1), Var(group2))),
         Num(Len(group1) + Len(group2) - 2))

\* the pooled standard deviation is a number other than 0
PooledSpread(group1, group2) ==
    /\ IsFinite(PooledVariance(group1, group2))
    /\ FLess(Num(0), PooledVariance(group1, group2))

\* -d of an effect size d
NegatedRoot(d) == [sign |-> 0 - d.sign, sq |-> d.sq]

\* d of the two samples is minus d of the samples in the other order, and
\* has the sign of mean(group1) - mean(group2)
Antisymmetric(group1, group2) ==
    /\ cohens_d(group1, group2) = NegatedRoot(cohens_d(group2, group1))
    /\ cohens_d(group1, group2).sign = Sign(FSub(Mean(group1), Mean(group2)).num)

\* C21: with a pooled standard deviation other than 0, cohens_d(g1, g2) is
\* -cohens_d(g2, g1), of the same magnitude, and the effect sizes reported
\* have the sign of mean(treatment) - mean(control).
C21_CohensDAntisymmetric ==
    "cohens_d_revenue" \in DOMAIN results =>
        LET control_rev   == SampleValues(control_customers, "TotalRevenue")
            treatment_rev == SampleValues(treatment_customers, "TotalDiscountedRevenue")
            control_ord   == SampleValues(control_customers, "TotalOrders")
            treatment_ord == SampleValues(treatment_customers, "TotalOrders")
        IN  /\ PooledSpread(treatment_rev, control_rev) =>
                 /\ Antisymmetric(treatment_rev, control_rev)
                 /\ results.cohens_d_revenue.sign =
                      Sign(FSub(Mean(treatment_rev), Mean(control_rev)).num)
                 /\ results.cohens_d_revenue =
                      NegatedRoot(cohens_d(control_rev, treatment_rev))
            /\ PooledSpread(treatment_ord, control_ord) =>
                 /\ Antisymmetric(treatment_ord, control_ord)
                 /\ results.cohens_d_orders.sign =
                      Sign(FSub(Mean(treatment_ord), Mean(control_ord)).num)
                 /\ results.cohens_d_orders =
                      NegatedRoot(cohens_d(control_ord, treatment_ord))

\* a negative effect on revenue of two groups whose spreads differ
C21_Witness ==
    /\ "cohens_d_revenue" \in DOMAIN results
    /\ LET control_rev   == SampleValues(control_customers, "TotalRevenue")
           treatment_rev == SampleValues(treatment_customers, "TotalDiscountedRevenue")
       IN  /\ PooledSpread(treatment_rev, control_rev)
           /\ Var(treatment_rev) # Var(control_rev)
           /\ results.cohens_d_revenue.sign = -1
           /\ IsFinite(results.cohens_d_revenue.sq)

----------------------------------------------------------------------------
(* Claims about the revenue concentration.                                 *)

\* the sum of the k largest of a bag of values, given as a sequence
RECURSIVE SumOfLargest(_, _)
SumOfLargest(vals, k) ==
    IF k = 0 \/ vals = <<>> THEN 0
    ELSE LET i == CHOOSE j \in DOMAIN vals : \A l \in DOMAIN vals : vals[l] <= vals[j]
         IN  vals[i] + SumOfLargest(Without(vals, i), k - 1)

\* 100 x (the sum of the floor(pct% x n) largest Monetary) / (the sum of all)
TopShare(frame, pct) ==
    LET monetary == Column(frame, "Monetary")
    IN  Frac(100 * SumOfLargest(monetary, (pct * Len(frame)) \div 100),
             SumValues(monetary))

\* C22: the top-20% share is at least the top-10% share, each is 100 x the
\* sum of the floor(p x n) largest Monetary values over the sum of all, and
\* both lie between 0 and 100.
C22_ConcentrationOrdered ==
    pc \in {"churn", "rfm_done"} =>
        LET top_10 == IF pc = "churn" THEN metrics.top_10_pct_revenue_percent
                      ELSE metrics.top_10_pct_revenue_concentration
            top_20 == IF pc = "churn" THEN metrics.top_20_pct_revenue_percent
                      ELSE metrics.top_20_pct_revenue_concentration
        IN  /\ top_10 = TopShare(rfm_data, 10)
            /\ top_20 = TopShare(rfm_data, 20)
            /\ ~FLess(top_20, top_10)
            /\ IsFinite(top_10) /\ IsFinite(top_20)
            /\ ~FLess(top_10, Num(0)) /\ ~FLess(Num(100), top_10)
            /\ ~FLess(top_20, Num(0)) /\ ~FLess(Num(100), top_20)

\* ten customers of unequal value: the top 10% is one customer, the top 20%
\* two, and the second adds revenue
C22_Witness ==
    /\ pc = "churn"
    /\ Len(rfm_data) = 10
    /\ FLess(Num(0), metrics.top_10_pct_revenue_percent)
    /\ FLess(metrics.top_10_pct_revenue_percent, metrics.top_20_pct_revenue_percent)
    /\ rfm_data[1].Monetary < rfm_data[10].Monetary

----------------------------------------------------------------------------
(* Claims about the consolidated record.                                   *)

\* the recommendation of the analysis that a recommendation of the
\* consolidated record stands for
Verdict(recommendation) ==
    IF recommendation = "Implement" THEN "IMPLEMENT"
    ELSE IF recommendation = "Continue testing" THEN "CONTINUE TESTING"
    ELSE IF recommendation = "Do not implement" THEN "DO NOT IMPLEMENT"
    ELSE "none"

\* C28: the recommendation of the consolidated record is the recommendation
\* of the A/B analysis: implement exactly when revenue is significant with
\* uplift > 0 and ROI > 0, continue testing exactly when uplift > 0 without
\* significance, do not implement otherwise.
C28_RecommendationAgrees ==
    (pc = "consolidated" /\ "ab_testing" \in DOMAIN comprehensive_metrics) =>
        Verdict(comprehensive_metrics.ab_testing.recommendation) = Recommendation(results)

\* the segment names of the summary the RFM engine wrote
SegmentNames == {metrics.segments[i].Segment : i \in DOMAIN metrics.segments}

\* C23: a record is consolidated only from engine outputs that hold every
\* key the aggregator looks up: the segment 'Champions' in the summary of
\* the RFM engine and the labels month_1 .. month_3 in the cohort metrics;
\* with a key absent the aggregation aborts and no default stands in.
C23_MissingKeyAborts ==
    pc = "consolidated" =>
        /\ "segmentation" \in DOMAIN comprehensive_metrics =>
               "Champions" \in SegmentNames
        /\ "retention" \in DOMAIN comprehensive_metrics =>
               {"month_1_avg_retention", "month_2_avg_retention",
                "month_3_avg_retention"} \subseteq DOMAIN cohort_metrics

\* the record holds the sections built from the A/B results, the RFM
\* metrics and the tables
Reported == pc = "consolidated" /\ "overview" \in DOMAIN comprehensive_metrics

\* C29: overview.total_revenue is the total revenue the RFM engine reports,
\* the sum of Monetary over all customers, which is the raw revenue of the
\* snapshot, also when Treatment customers received discounts.
C29_TotalRevenueIsRawRevenue ==
    Reported =>
        /\ metrics.total_revenue = Num(SumOver(transactions, "Revenue"))
        /\ metrics.total_revenue = Num(SumValues(Column(rfm_data, "Monetary")))
        /\ comprehensive_metrics.overview.total_revenue = metrics.total_revenue

\* C30: growth.total_new_customers is overview.total_customers: a customer
\* is counted as new once, in the month of the first purchase, also with
\* transactions in more than one country.
C30_NewCustomersAreAllCustomers ==
    Reported =>
        /\ comprehensive_metrics.overview.total_customers =
               Cardinality(CustomersOf(transactions))
        /\ comprehensive_metrics.growth.total_new_customers =
               comprehensive_metrics.overview.total_customers

----------------------------------------------------------------------------
(* Claims about runs of the scripts.                                       *)

\* the second run over the table has written its outputs
RanTwice == pc = "consolidated" /\ previous # <<>>

\* C25: a second run over the same snapshot writes the output records the
\* first run wrote.
C25_RunsIdempotent ==
    RanTwice =>
        /\ cohort_metrics = previous.cohort_metrics
        /\ comprehensive_metrics = previous.comprehensive_metrics

\* 05 has opened comprehensive_metrics.json for writing
ConsolidatedWritten == task.aggregator \in {"writing", "done"}

\* what json.load met in the file, if 05 has opened it
ObservedState(name) ==
    IF \E i \in DOMAIN observed : observed[i].file = name
    THEN (CHOOSE o \in Range(observed) : o.file = name).state
    ELSE "unread"

C24_WitnessAbort ==
    /\ pc = "tasks"
    /\ task.aggregator = "crashed"
    /\ error = "JSONDecodeError"
    /\ \E name \in EngineOutputs : ObservedState(name) = "partial"
====
